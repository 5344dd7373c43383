-------------------------- MODULE BuildSpecsProofs --------------------------
(***************************************************************************)
(* Proofs about BuildSpecs, for any number of runs, names, versions and    *)
(* retries.                                                                *)
(***************************************************************************)
EXTENDS BuildSpecs, WellFoundedInduction, TLAPS

(* What the runs know of the version file and of the specs is old, but was  *)
(* true.                                                                    *)
VersionInv ==
  /\ \A v \in DOMAIN specs : v <= versionFile
  /\ \A b \in Builders :
       /\ checkout[b].version <= versionFile
       /\ \A v \in DOMAIN clone[b].specs : v <= versionFile

(* A run that is about to publish has a version that is not the latest one. *)
PublishInv ==
  \A b \in Builders :
    /\ pc[b] \in {"publish", "claim", "done"} \cup Holding =>
         version[b] \in Versions
    /\ pc[b] = "publish" => /\ version[b] = checkout[b].version
                            /\ version[b] # LatestOf(clone[b].specs)

(* A run owns the names that it has claimed until it is over, and has told  *)
(* of those whose status it has uploaded.                                   *)
Through(b, n) == \E i \in 1 .. sent[b] : NamesOf(b)[i] = n
Owns(b, n) ==
  /\ n \in Named(b)
  /\ pc[b] \in Holding \/ (pc[b] = "claim" /\ Through(b, n))
Told(b, n) == pc[b] = "upload" /\ Through(b, n)

(* What a run owns is its own: what the stores say of it, only it has said. *)
Says(b, n) ==
  /\ status[n][version[b]] = IF Told(b, n) THEN verdict[b] ELSE "inflight"
  /\ LinksOf(n, version[b]) =
       IF pc[b] = "upload" THEN {OwnVerdict(b, n)} ELSE {}

OwnInv == \A b \in Builders : \A n \in Names : Owns(b, n) => Says(b, n)
ExclInv ==
  \A b, c \in Builders : \A n \in Names :
    b # c /\ Owns(b, n) /\ Owns(c, n) => version[b] # version[c]

(* Nothing is linked that nobody has claimed. *)
MissingInv ==
  \A n \in Names : \A v \in Versions :
    status[n][v] = "missing" => LinksOf(n, v) = {}

SentInv ==
  \A b \in Builders : pc[b] \notin {"claim", "upload", "error"} => sent[b] = 0

IInv ==
  /\ TypeOK /\ VersionInv /\ PublishInv /\ SentInv
  /\ OwnInv /\ ExclInv /\ MissingInv /\ StatusHasLink

-----------------------------------------------------------------------------
(* The specs of a repository have a latest one.                            *)
LEMMA LatestIsHighest ==
  ASSUME NEW s \in SpecMaps
  PROVE  IF DOMAIN s = {} THEN LatestOf(s) = 0
         ELSE /\ LatestOf(s) \in DOMAIN s
              /\ \A w \in DOMAIN s : w <= LatestOf(s)
<1>1. CASE DOMAIN s = {}
  BY <1>1 DEF LatestOf
<1>2. CASE DOMAIN s # {}
  <2> DEFINE less == {ss \in Nat \X Nat : ss[1] < ss[2]}
             down == {n \in Nat : \E v \in DOMAIN s : n = MaxVersion - v}
  <2>1. DOMAIN s \subseteq 1 .. MaxVersion /\ MaxVersion \in Nat
    BY SpecsAssumption DEF SpecMaps, Versions
  <2>2. IsWellFoundedOn(less, Nat)
    BY NatLessThanWellFounded DEF OpToRel
  <2>3. down \subseteq Nat
    OBVIOUS
  <2>4. down # {}
    <3>1. PICK v \in DOMAIN s : TRUE
      BY <1>2
    <3>2. MaxVersion - v \in down
      BY <2>1
    <3> QED
      BY <3>2
  <2>5. PICK n \in down : \A m \in down : ~(<<m, n>> \in less)
    <3> HIDE DEF less, down
    <3> QED
      BY <2>2, <2>3, <2>4, WFMin
  <2>6. PICK v \in DOMAIN s : n = MaxVersion - v
    OBVIOUS
  <2>7. \A w \in DOMAIN s : w <= v
    <3> SUFFICES ASSUME NEW w \in DOMAIN s PROVE w <= v
      OBVIOUS
    <3>1. MaxVersion - w \in down
      BY <2>1
    <3>2. ~(MaxVersion - w < n)
      BY <3>1, <2>5
    <3> QED
      BY <2>1, <2>6, <3>2
  <2> QED
    BY <1>2, <2>7 DEF LatestOf
<1> QED
  BY <1>1, <1>2

(* Publishing a spec adds its version, or replaces that one, and no other. *)
LEMMA SpecsWithAdds ==
  ASSUME NEW s \in SpecMaps, NEW v \in Versions, NEW m \in Manifests
  PROVE  /\ SpecsWith(s, v, m) \in SpecMaps
         /\ DOMAIN SpecsWith(s, v, m) = DOMAIN s \cup {v}
         /\ \A w \in DOMAIN s \ {v} : SpecsWith(s, v, m)[w] = s[w]
<1>1. PICK vs \in SUBSET Versions : s \in [vs -> Manifests]
  BY DEF SpecMaps
<1>2. SpecsWith(s, v, m) \in [vs \cup {v} -> Manifests]
  BY <1>1 DEF SpecsWith
<1> QED
  BY <1>1, <1>2 DEF SpecsWith, SpecMaps

(* What the assumption on the fleets says of the names of a run. *)
LEMMA NamesOfRun ==
  ASSUME TypeOK, NEW b \in Builders
  PROVE  /\ Len(NamesOf(b)) \in Nat \ {0}
         /\ DOMAIN NamesOf(b) = 1 .. Len(NamesOf(b))
         /\ Named(b) \subseteq Names
         /\ \A i \in 1 .. Len(NamesOf(b)) : NamesOf(b)[i] \in Named(b)
         /\ \A n \in Named(b) :
              \E i \in 1 .. Len(NamesOf(b)) : NamesOf(b)[i] = n
         /\ \A i, j \in 1 .. Len(NamesOf(b)) :
              NamesOf(b)[i] = NamesOf(b)[j] => i = j
<1>1. NamesOf(b) \in Seq(Names) /\ NamesOf(b) # <<>>
  BY SpecsAssumption DEF TypeOK, NamesOf
<1>2. Len(NamesOf(b)) \in Nat \ {0} /\ DOMAIN NamesOf(b) = 1 .. Len(NamesOf(b))
  BY <1>1
<1>3. \A i, j \in DOMAIN NamesOf(b) : NamesOf(b)[i] = NamesOf(b)[j] => i = j
  BY SpecsAssumption DEF TypeOK, NamesOf
<1>4. \A i \in 1 .. Len(NamesOf(b)) : NamesOf(b)[i] \in Names
  BY <1>1
<1> QED
  BY <1>2, <1>3, <1>4 DEF Named

(* The invariant holds when no run has started. *)
LEMMA InitInv == Init => IInv
<1> SUFFICES ASSUME Init PROVE IInv
  OBVIOUS
<1>1. specs \in SpecMaps /\ DOMAIN specs = {1}
  <2>1. 0 \in 0 .. MaxTree /\ 1 \in Versions
    <3>1. MaxTree \in Nat /\ MaxVersion \in Nat \ {0}
      BY SpecsAssumption
    <3> QED
      BY <3>1 DEF Versions
  <2>2. specs \in [{1} -> Manifests]
    BY <2>1 DEF Init, Manifests
  <2> QED
    BY <2>1, <2>2 DEF SpecMaps
<1>2. PICK first \in [Names -> Statuses] :
        status = [n \in Names |-> [v \in Versions |->
                    IF v = 1 /\ \E b \in Builders : n \in Named(b)
                    THEN first[n] ELSE "missing"]]
  BY DEF Init
<1>3. /\ status \in [Names -> [Versions -> Statuses]]
      /\ \A n \in Names : \A v \in Versions \ {1} : status[n][v] = "missing"
  BY <1>2 DEF Statuses
<1>4. TypeOK
  <2>1. \A b \in Builders : 0 < Len(NamesOf(b))
    <3> SUFFICES ASSUME NEW b \in Builders PROVE 0 < Len(NamesOf(b))
      OBVIOUS
    <3>1. NamesOf(b) \in Seq(Names) /\ NamesOf(b) # <<>>
      BY SpecsAssumption DEF Init, NamesOf
    <3> QED
      BY <3>1
  <2>2. /\ sent \in [Builders -> Nat]
        /\ \A b \in Builders : sent[b] < Len(NamesOf(b))
    BY <2>1 DEF Init
  <2>3. /\ tries \in [Builders -> 0 .. Retries]
        /\ checkout \in [Builders -> Manifests]
        /\ versionFile \in Versions /\ tree \in 0 .. MaxTree
        /\ unprocessed \in [Builders -> 0 .. MaxVersion]
        /\ version \in [Builders -> 0 .. MaxVersion]
    BY SpecsAssumption DEF Init, Versions, Manifests
  <2>4. clone \in [Builders -> [specs : SpecMaps, links : SUBSET Links]]
    BY <1>1 DEF Init, Repo
  <2> QED
    BY <1>1, <1>3, <2>2, <2>3, <2>4
    DEF Init, TypeOK, Searching, Verdicts
<1>5. VersionInv /\ PublishInv /\ SentInv
  BY <1>1 DEF Init, VersionInv, PublishInv, SentInv, Repo, Holding
<1>6. OwnInv /\ ExclInv
  BY DEF Init, OwnInv, ExclInv, Owns, Holding
<1>7. MissingInv /\ StatusHasLink
  BY <1>3 DEF Init, MissingInv, LinksOf, StatusHasLink, Verdicts
<1> QED
  BY <1>4, <1>5, <1>6, <1>7 DEF IInv

-----------------------------------------------------------------------------
(* Runs that own the same name build different versions. *)
LEMMA OwnersDiffer ==
  ASSUME TypeOK, ExclInv
  PROVE  ClaimIsExclusive
<1> SUFFICES ASSUME NEW b \in Builders, NEW c \in Builders,
                    b # c, Named(b) \cap Named(c) # {},
                    pc[b] \in Holding, pc[c] \in Holding
             PROVE  version[b] # version[c]
  BY DEF ClaimIsExclusive
<1>1. PICK n \in Named(b) : n \in Named(c)
  OBVIOUS
<1>2. n \in Names
  BY NamesOfRun
<1>3. Owns(b, n) /\ Owns(c, n)
  BY <1>1 DEF Owns
<1> QED
  BY <1>2, <1>3 DEF ExclInv

Late == {"upload", "done", "error"}

(* A step of another run. *)
Stays(c) ==
  /\ pc'[c] = pc[c] /\ version'[c] = version[c] /\ sent'[c] = sent[c]
  /\ verdict'[c] = verdict[c] /\ passed'[c] = passed[c]

(* What stays of an entry of the stores in a step. *)
Kept(n, v) == status'[n][v] = status[n][v] /\ LinksOf(n, v)' = LinksOf(n, v)

(* What a run does to the stores harms nobody, if it changes no final       *)
(* status and no entry that is another's.                                   *)
LEMMA StoresHold ==
  ASSUME IInv, NEW b \in Builders, UNCHANGED fleet,
         \A c \in Builders \ {b} : Stays(c),
         \A n \in Names : \A v \in Versions :
           /\ status[n][v] \in Verdicts \/ status'[n][v] = "missing" => Kept(n, v)
           /\ \/ Kept(n, v)
              \/ status[n][v] = "missing"
              \/ v = version[b] /\ Owns(b, n),
         \A n \in Names : Owns(b, n)' =>
           /\ version'[b] = version[b]
           /\ Owns(b, n) \/ status[n][version[b]] = "missing"
           /\ Says(b, n)',
         pc[b] \in Late => /\ pc'[b] \in Late /\ version'[b] = version[b]
                           /\ verdict'[b] = verdict[b] /\ passed'[b] = passed[b]
  PROVE  /\ OwnInv' /\ ExclInv' /\ MissingInv'
         /\ \A c \in Builders : \A n \in Names : \A v \in Versions :
              Reported(c, n, v) => Reported(c, n, v)'
<1>1. ASSUME NEW c \in Builders \ {b}, NEW n \in Names
      PROVE  /\ Owns(c, n)' <=> Owns(c, n)
             /\ Told(c, n)' <=> Told(c, n)
             /\ OwnVerdict(c, n)' = OwnVerdict(c, n)
  <2>1. pc'[c] = pc[c] /\ sent'[c] = sent[c] /\ passed'[c] = passed[c]
    BY <1>1 DEF Stays
  <2>2. NamesOf(c)' = NamesOf(c) /\ Named(c)' = Named(c)
    BY DEF NamesOf, Named
  <2>3. Through(c, n)' <=> Through(c, n)
    BY <2>1, <2>2 DEF Through
  <2> QED
    BY <2>1, <2>2, <2>3 DEF Owns, Told, OwnVerdict
<1>2. ASSUME NEW c \in Builders, NEW n \in Names, Owns(c, n)
      PROVE  /\ version[c] \in Versions /\ Says(c, n)
             /\ status[n][version[c]] # "missing"
  <2>1. version[c] \in Versions
    BY <1>2 DEF IInv, PublishInv, Owns
  <2>2. Says(c, n)
    BY <1>2 DEF IInv, OwnInv
  <2>3. verdict[c] # "missing"
    BY DEF IInv, TypeOK, Verdicts
  <2> QED
    BY <2>1, <2>2, <2>3 DEF Says
<1>3. OwnInv'
  <2> SUFFICES ASSUME NEW c \in Builders, NEW n \in Names, Owns(c, n)'
               PROVE  Says(c, n)'
    BY DEF OwnInv
  <2>1. CASE c = b
    BY <2>1
  <2>2. CASE c # b
    <3>1. Owns(c, n) /\ Stays(c)
      BY <1>1, <2>2
    <3>2. Kept(n, version[c])
      <4>1. ~(version[c] = version[b] /\ Owns(b, n))
        BY <2>2, <3>1 DEF IInv, ExclInv
      <4> QED
        BY <1>2, <3>1, <4>1
    <3>3. Says(c, n)
      BY <1>2, <3>1
    <3>4. /\ version'[c] = version[c] /\ verdict'[c] = verdict[c]
          /\ pc'[c] = pc[c]
      BY <3>1 DEF Stays
    <3>5. /\ Told(c, n)' <=> Told(c, n)
          /\ OwnVerdict(c, n)' = OwnVerdict(c, n)
      BY <1>1, <2>2
    <3> QED
      BY <3>2, <3>3, <3>4, <3>5 DEF Says, Kept
  <2> QED
    BY <2>1, <2>2
<1>4. ExclInv'
  <2> SUFFICES ASSUME NEW c \in Builders, NEW d \in Builders, NEW n \in Names,
                      c # d, Owns(c, n)', Owns(d, n)'
               PROVE  version'[c] # version'[d]
    BY DEF ExclInv
  <2>1. ASSUME NEW e \in Builders, e # b, Owns(e, n)', Owns(b, n)'
        PROVE  version'[e] # version'[b]
    <3>1. Owns(e, n) /\ version'[e] = version[e] /\ version'[b] = version[b]
      BY <1>1, <2>1 DEF Stays
    <3>2. CASE Owns(b, n)
      BY <2>1, <3>1, <3>2 DEF IInv, ExclInv
    <3>3. CASE status[n][version[b]] = "missing"
      BY <1>2, <3>1, <3>3
    <3> QED
      BY <2>1, <3>2, <3>3
  <2>2. CASE c # b /\ d # b
    BY <1>1, <2>2 DEF IInv, ExclInv, Stays
  <2> QED
    BY <2>1, <2>2
<1>5. MissingInv'
  <2> SUFFICES ASSUME NEW n \in Names, NEW v \in Versions,
                      status'[n][v] = "missing"
               PROVE  LinksOf(n, v)' = {}
    BY DEF MissingInv
  <2>1. Kept(n, v)
    OBVIOUS
  <2> QED
    BY <2>1 DEF IInv, MissingInv, Kept
<1>6. ASSUME NEW c \in Builders, NEW n \in Names, NEW v \in Versions,
             Reported(c, n, v)
      PROVE  Reported(c, n, v)'
  <2>1. /\ pc[c] \in Late /\ n \in Named(c) /\ version[c] = v
        /\ status[n][v] = verdict[c] /\ LinksOf(n, v) = {OwnVerdict(c, n)}
    BY <1>6 DEF Reported, Late
  <2>2. Kept(n, v)
    <3>1. verdict[c] \in Verdicts
      BY DEF IInv, TypeOK
    <3> QED
      BY <2>1, <3>1
  <2>3. /\ pc'[c] \in Late /\ version'[c] = version[c]
        /\ verdict'[c] = verdict[c] /\ passed'[c] = passed[c]
    BY <2>1 DEF Stays
  <2>4. Named(c)' = Named(c) /\ OwnVerdict(c, n)' = OwnVerdict(c, n)
    BY <2>3 DEF Named, NamesOf, OwnVerdict
  <2> QED
    BY <2>1, <2>2, <2>3, <2>4 DEF Reported, Kept, Late
<1> QED
  BY <1>3, <1>4, <1>5, <1>6

(* Where the stores stay, it is enough that no run comes to a claim or to   *)
(* the end, and that one that has pushed its links stands by them.          *)
LEMMA QuietStep ==
  ASSUME IInv, NEW b \in Builders, UNCHANGED <<fleet, links, status, sent>>,
         \A c \in Builders \ {b} : Stays(c),
         pc[b] \notin {"claim", "upload", "done", "error"},
         pc'[b] \notin {"upload", "done"},
         pc'[b] \in Holding => pc[b] \in Holding /\ version'[b] = version[b]
  PROVE  SentInv' /\ OwnInv' /\ ExclInv' /\ MissingInv' /\ StatusHasLink'
<1>1. \A n \in Names : \A v \in Versions : Kept(n, v)
  BY DEF Kept, LinksOf
<1>2. ASSUME NEW n \in Names, Owns(b, n)'
      PROVE  /\ version'[b] = version[b] /\ Owns(b, n) /\ Says(b, n)'
  <2>0. Named(b)' = Named(b)
    BY DEF Named, NamesOf
  <2>1. pc'[b] # "claim"
    <3> SUFFICES ASSUME pc'[b] = "claim" PROVE FALSE
      OBVIOUS
    <3>1. sent'[b] = 0
      BY DEF IInv, SentInv
    <3>2. ~Through(b, n)'
      BY <3>1 DEF Through
    <3> QED
      BY <1>2, <3>2 DEF Owns, Holding
  <2>2. /\ pc'[b] \in Holding /\ pc[b] \in Holding
        /\ version'[b] = version[b] /\ Owns(b, n)
    BY <1>2, <2>0, <2>1 DEF Owns
  <2>3. Says(b, n) /\ ~Told(b, n) /\ ~Told(b, n)'
    BY <2>2 DEF IInv, OwnInv, Told
  <2>4. version[b] \in Versions
    BY <2>2 DEF IInv, PublishInv
  <2> QED
    BY <1>1, <2>2, <2>3, <2>4 DEF Says, Kept
<1>3. /\ OwnInv' /\ ExclInv' /\ MissingInv'
      /\ \A c \in Builders : \A n \in Names : \A v \in Versions :
           Reported(c, n, v) => Reported(c, n, v)'
  BY <1>1, <1>2, StoresHold DEF Late
<1>4. SentInv'
  BY DEF IInv, SentInv, Stays
<1>5. StatusHasLink'
  <2>1. ASSUME NEW n \in Names, NEW v \in Versions \ {1},
               status'[n][v] \in Verdicts
        PROVE  \E c \in Builders : Reported(c, n, v)'
    BY <1>3, <2>1 DEF IInv, StatusHasLink
  <2>2. ASSUME NEW c \in Builders, pc'[c] = "done", NEW n \in Named(c)'
        PROVE  Reported(c, n, version[c])'
    <3>1. c # b /\ pc[c] = "done" /\ version'[c] = version[c]
      BY <2>2 DEF Stays
    <3>2. n \in Named(c) /\ n \in Names
      BY <2>2, NamesOfRun DEF IInv, Named, NamesOf
    <3>3. version[c] \in Versions
      BY <3>1 DEF IInv, PublishInv
    <3>4. Reported(c, n, version[c])
      BY <3>1, <3>2 DEF IInv, StatusHasLink
    <3>5. \A v \in Versions : Reported(c, n, v) => Reported(c, n, v)'
      BY <1>3, <3>2
    <3> QED
      BY <3>1, <3>3, <3>4, <3>5 DEF Reported
  <2> QED
    BY <2>1, <2>2 DEF StatusHasLink
<1> QED
  BY <1>3, <1>4, <1>5

(* Nothing that the two stores are about. *)
LEMMA NothingSaid ==
  ASSUME IInv, UNCHANGED <<fleet, links, status, pc>>,
         UNCHANGED <<version, sent, verdict, passed>>
  PROVE  OwnInv' /\ ExclInv' /\ MissingInv' /\ StatusHasLink'
<1>1. OwnInv' /\ ExclInv'
  BY DEF IInv, OwnInv, ExclInv, Owns, Says, Told, Through, LinksOf, OwnVerdict,
         Named, NamesOf
<1>2. MissingInv'
  BY DEF IInv, MissingInv, LinksOf
<1>3. StatusHasLink'
  BY DEF IInv, StatusHasLink, Reported, LinksOf, OwnVerdict, Named, NamesOf
<1> QED
  BY <1>1, <1>2, <1>3

-----------------------------------------------------------------------------
(* A run is through with its names one after the other, in their order. *)
LEMMA NextIsNext ==
  ASSUME IInv, NEW b \in Builders
  PROVE  /\ NextName(b) \in Named(b) /\ NextName(b) \in Names
         /\ ~Through(b, NextName(b))
         /\ sent[b] + 1 = Len(NamesOf(b)) =>
              \A n \in Named(b) : Through(b, n) \/ n = NextName(b)
         /\ UNCHANGED fleet /\ sent'[b] = sent[b] + 1 =>
              \A n \in Names : Through(b, n)' <=> Through(b, n) \/ n = NextName(b)
         /\ UNCHANGED fleet /\ sent'[b] = 0 => \A n \in Names : ~Through(b, n)'
<1> DEFINE k == sent[b]
           l == Len(NamesOf(b))
<1>1. /\ l \in Nat \ {0} /\ Named(b) \subseteq Names
      /\ \A i \in 1 .. l : NamesOf(b)[i] \in Named(b)
      /\ \A n \in Named(b) : \E i \in 1 .. l : NamesOf(b)[i] = n
      /\ \A i, j \in 1 .. l : NamesOf(b)[i] = NamesOf(b)[j] => i = j
  BY NamesOfRun DEF IInv
<1>2. k \in Nat /\ k < l
  BY DEF IInv, TypeOK
<1>3. /\ k + 1 \in 1 .. l /\ \A i \in 1 .. k : i \in 1 .. l /\ i # k + 1
      /\ \A i \in 1 .. k + 1 : i \in 1 .. k \/ i = k + 1
      /\ \A i \in 1 .. k : i \in 1 .. k + 1
      /\ k + 1 \in 1 .. k + 1
      /\ k + 1 = l => 1 .. l = 1 .. k + 1
  BY <1>1, <1>2
<1> HIDE DEF l
<1>4. NextName(b) = NamesOf(b)[k + 1]
  BY DEF NextName
<1>5. NextName(b) \in Named(b) /\ NextName(b) \in Names
  BY <1>1, <1>3, <1>4
<1>6. ~Through(b, NextName(b))
  BY <1>1, <1>3, <1>4 DEF Through
<1>7. ASSUME k + 1 = l, NEW n \in Named(b)
      PROVE  Through(b, n) \/ n = NextName(b)
  <2>1. PICK i \in 1 .. k + 1 : NamesOf(b)[i] = n
    BY <1>1, <1>3, <1>7
  <2>2. i \in 1 .. k \/ i = k + 1
    BY <1>3
  <2> QED
    BY <2>1, <2>2, <1>4 DEF Through
<1>8. ASSUME UNCHANGED fleet, sent'[b] = k + 1, NEW n \in Names
      PROVE  Through(b, n)' <=> Through(b, n) \/ n = NextName(b)
  <2>1. Through(b, n)' <=> \E i \in 1 .. k + 1 : NamesOf(b)[i] = n
    BY <1>8 DEF Through, NamesOf
  <2>2. (\E i \in 1 .. k + 1 : NamesOf(b)[i] = n) <=>
          (\E i \in 1 .. k : NamesOf(b)[i] = n) \/ NamesOf(b)[k + 1] = n
    BY ONLY <1>3
  <2> QED
    BY <2>1, <2>2, <1>4 DEF Through
<1>9. ASSUME UNCHANGED fleet, sent'[b] = 0, NEW n \in Names
      PROVE  ~Through(b, n)'
  BY <1>9 DEF Through
<1> QED
  BY <1>5, <1>6, <1>7, <1>8, <1>9 DEF l

(* What the stores are after an upload. *)
LEMMA UploadsOne ==
  ASSUME IInv, NEW b \in Builders, NEW s \in Statuses,
         NEW after \in {"build", "done"}, pc[b] \in {"claim", "upload"},
         Uploads(b, s, after), UNCHANGED <<fleet, links, version, outcome>>
  PROVE  /\ version[b] \in Versions
         /\ status' \in [Names -> [Versions -> Statuses]]
         /\ \A n \in Names, v \in Versions :
              status'[n][v] = IF n = NextName(b) /\ v = version[b]
                              THEN s ELSE status[n][v]
         /\ \A n \in Names, v \in Versions :
              \/ Kept(n, v)
              \/ n = NextName(b) /\ v = version[b]
         /\ \/ /\ sent[b] + 1 = Len(NamesOf(b))
               /\ pc'[b] = after /\ sent'[b] = 0
            \/ /\ sent[b] + 1 # Len(NamesOf(b))
               /\ pc'[b] = pc[b] /\ sent'[b] = sent[b] + 1
         /\ \A c \in Builders \ {b} : Stays(c)
         /\ pc' \in [Builders -> Searching \cup Holding \cup Ended]
         /\ sent' \in [Builders -> Nat]
         /\ \A c \in Builders : sent'[c] < Len(NamesOf(c))
<1>1. version[b] \in Versions
  BY DEF IInv, PublishInv, Holding
<1>2. NextName(b) \in Names
  BY NextIsNext
<1>3. status' = [status EXCEPT ![NextName(b)][version[b]] = s]
  BY DEF Uploads
<1>4. status \in [Names -> [Versions -> Statuses]]
  BY DEF IInv, TypeOK
<1>5. /\ status' \in [Names -> [Versions -> Statuses]]
      /\ \A n \in Names, v \in Versions :
           status'[n][v] = IF n = NextName(b) /\ v = version[b]
                           THEN s ELSE status[n][v]
  BY ONLY <1>1, <1>2, <1>3, <1>4
<1>6. ASSUME NEW n \in Names, NEW v \in Versions
      PROVE  Kept(n, v) \/ (n = NextName(b) /\ v = version[b])
  BY <1>5 DEF Kept, LinksOf
<1>7. /\ pc \in [Builders -> Searching \cup Holding \cup Ended]
      /\ sent \in [Builders -> Nat] /\ sent[b] \in Nat
      /\ \A c \in Builders : sent[c] < Len(NamesOf(c))
  BY DEF IInv, TypeOK
<1>8. /\ \/ /\ sent[b] + 1 = Len(NamesOf(b))
            /\ pc' = [pc EXCEPT ![b] = after] /\ sent' = [sent EXCEPT ![b] = 0]
         \/ /\ sent[b] + 1 # Len(NamesOf(b))
            /\ pc' = pc /\ sent' = [sent EXCEPT ![b] = sent[b] + 1]
  BY DEF Uploads
<1>9. /\ \/ /\ sent[b] + 1 = Len(NamesOf(b))
            /\ pc'[b] = after /\ sent'[b] = 0
         \/ /\ sent[b] + 1 # Len(NamesOf(b))
            /\ pc'[b] = pc[b] /\ sent'[b] = sent[b] + 1
      /\ \A c \in Builders \ {b} : pc'[c] = pc[c] /\ sent'[c] = sent[c]
      /\ pc' \in [Builders -> Searching \cup Holding \cup Ended]
      /\ sent' \in [Builders -> Nat]
  <2>1. b \in Builders /\ after \in Searching \cup Holding \cup Ended
    BY DEF Holding, Ended
  <2>2. CASE /\ sent[b] + 1 = Len(NamesOf(b))
             /\ pc' = [pc EXCEPT ![b] = after] /\ sent' = [sent EXCEPT ![b] = 0]
    BY <1>7, <2>1, <2>2
  <2>3. CASE /\ sent[b] + 1 # Len(NamesOf(b))
             /\ pc' = pc /\ sent' = [sent EXCEPT ![b] = sent[b] + 1]
    <3>1. sent[b] + 1 \in Nat
      BY <1>7
    <3> QED
      BY <1>7, <2>3, <3>1
  <2> QED
    BY <1>8, <2>2, <2>3
<1>10. \A c \in Builders \ {b} : Stays(c)
  BY <1>9 DEF Stays, outcome
<1>11. ASSUME NEW c \in Builders PROVE sent'[c] < Len(NamesOf(c))
  <2>1. Len(NamesOf(b)) \in Nat \ {0}
    BY NamesOfRun DEF IInv
  <2>2. CASE c = b
    <3>1. sent[b] < Len(NamesOf(b)) /\ sent[b] \in Nat
      BY <1>7
    <3>2. sent'[b] < Len(NamesOf(b))
      BY <1>9, <2>1, <3>1
    <3> QED
      BY <2>2, <3>2
  <2>3. CASE c # b
    BY <1>7, <1>9, <2>3
  <2> QED
    BY <2>2, <2>3
<1> QED
  BY <1>1, <1>5, <1>6, <1>9, <1>10, <1>11

(* StatusHasLink where a step makes no final status but of its own run.     *)
LEMMA ReportsHold ==
  ASSUME IInv, NEW b \in Builders, UNCHANGED fleet,
         \A c \in Builders \ {b} : Stays(c),
         \A c \in Builders : \A n \in Names : \A v \in Versions :
           Reported(c, n, v) => Reported(c, n, v)',
         \A n \in Names : \A v \in Versions :
           status'[n][v] \in Verdicts =>
             status[n][v] \in Verdicts \/ Reported(b, n, v)',
         pc'[b] = "done" => /\ version'[b] = version[b]
                            /\ \A n \in Named(b) : Reported(b, n, version[b])'
  PROVE  StatusHasLink'
<1>1. ASSUME NEW n \in Names, NEW v \in Versions \ {1},
             status'[n][v] \in Verdicts
      PROVE  \E c \in Builders : Reported(c, n, v)'
  BY <1>1 DEF IInv, StatusHasLink
<1>2. ASSUME NEW c \in Builders, pc'[c] = "done", NEW n \in Named(c)
      PROVE  Reported(c, n, version[c])'
  <2>1. CASE c = b
    BY <1>2, <2>1
  <2>2. CASE c # b
    <3>1. pc[c] = "done" /\ version'[c] = version[c]
      BY <1>2, <2>2 DEF Stays
    <3>2. n \in Names
      BY NamesOfRun DEF IInv
    <3>3. version[c] \in Versions
      BY <3>1 DEF IInv, PublishInv
    <3>4. Reported(c, n, version[c])
      BY <3>1 DEF IInv, StatusHasLink
    <3>5. Reported(c, n, version[c])'
      BY <3>1, <3>2, <3>3, <3>4 DEF Reported
    <3> QED
      BY <3>5
  <2> QED
    BY <2>1, <2>2
<1>3. \A c \in Builders : Named(c)' = Named(c)
  BY DEF Named, NamesOf
<1> QED
  BY <1>1, <1>2, <1>3 DEF StatusHasLink

-----------------------------------------------------------------------------
(* A name is claimed that nobody has claimed. *)
LEMMA ClaimStep ==
  ASSUME IInv, NEW b \in Builders, SetInFlight(b)
  PROVE  IInv'
<1>1. /\ pc[b] = "claim" /\ status[NextName(b)][version[b]] = "missing"
      /\ Uploads(b, "inflight", "build")
      /\ UNCHANGED <<source, repo, attempt, fleet, clone, version, outcome>>
  BY DEF SetInFlight, Unclaimed
<1>2. UNCHANGED <<fleet, tree, versionFile, specs, links, tries, checkout,
                  clone, unprocessed, version, verdict, passed>>
  BY <1>1 DEF source, repo, attempt, outcome
<1>3. "inflight" \in Statuses /\ "build" \in {"build", "done"}
  BY DEF Statuses
<1>4. /\ version[b] \in Versions
      /\ status' \in [Names -> [Versions -> Statuses]]
      /\ \A n \in Names, v \in Versions :
           status'[n][v] = IF n = NextName(b) /\ v = version[b]
                           THEN "inflight" ELSE status[n][v]
      /\ \A n \in Names, v \in Versions :
           Kept(n, v) \/ (n = NextName(b) /\ v = version[b])
      /\ \/ /\ sent[b] + 1 = Len(NamesOf(b))
            /\ pc'[b] = "build" /\ sent'[b] = 0
         \/ /\ sent[b] + 1 # Len(NamesOf(b))
            /\ pc'[b] = "claim" /\ sent'[b] = sent[b] + 1
      /\ \A c \in Builders \ {b} : Stays(c)
      /\ pc' \in [Builders -> Searching \cup Holding \cup Ended]
      /\ sent' \in [Builders -> Nat]
      /\ \A c \in Builders : sent'[c] < Len(NamesOf(c))
  <2>1. UNCHANGED <<fleet, links, version, outcome>>
    BY <1>1 DEF repo
  <2> QED
    BY <1>1, <1>3, <2>1, UploadsOne
<1>5. TypeOK'
  BY <1>2, <1>4 DEF IInv, TypeOK, NamesOf
<1>6. VersionInv' /\ PublishInv' /\ SentInv'
  <2>1. \A c \in Builders \ {b} : pc'[c] = pc[c] /\ sent'[c] = sent[c]
    BY <1>4 DEF Stays
  <2>2. VersionInv'
    BY <1>2 DEF IInv, VersionInv
  <2>3. PublishInv'
    BY <1>2, <1>4, <2>1 DEF IInv, PublishInv
  <2>4. SentInv'
    BY <1>4, <2>1 DEF IInv, SentInv
  <2> QED
    BY <2>2, <2>3, <2>4
<1>7. NextName(b) \in Names /\ NextName(b) \in Named(b)
  BY NextIsNext
<1>8. ASSUME NEW n \in Names, Owns(b, n)'
      PROVE  /\ Owns(b, n) \/ n = NextName(b)
             /\ pc'[b] \in {"claim", "build"} /\ n \in Named(b)
  <2>1. n \in Named(b)
    BY <1>2, <1>8 DEF Owns, Named, NamesOf
  <2>2. Through(b, n) \/ n = NextName(b)
    <3>1. CASE pc'[b] = "build"
      BY <1>4, <2>1, <3>1, NextIsNext
    <3>2. CASE pc'[b] # "build"
      <4>1. sent'[b] = sent[b] + 1 /\ pc'[b] = "claim"
        BY <1>4, <3>2
      <4>2. Through(b, n)'
        BY <1>8, <4>1 DEF Owns, Holding
      <4> QED
        BY <1>2, <4>1, <4>2, NextIsNext
    <3> QED
      BY <3>1, <3>2
  <2> QED
    BY <1>1, <1>4, <2>1, <2>2 DEF Owns
<1>9. ASSUME NEW n \in Names, Owns(b, n)'
      PROVE  Says(b, n)'
  <2>1. status'[n][version[b]] = "inflight"
    <3>1. CASE Owns(b, n)
      <4>1. status[n][version[b]] = "inflight"
        BY <1>1, <3>1 DEF IInv, OwnInv, Says, Told
      <4> QED
        BY <1>4, <4>1
    <3>2. CASE n = NextName(b)
      BY <1>4, <3>2
    <3> QED
      BY <1>8, <1>9, <3>1, <3>2
  <2>2. LinksOf(n, version[b]) = {}
    <3>1. CASE Owns(b, n)
      BY <1>1, <3>1 DEF IInv, OwnInv, Says
    <3>2. CASE n = NextName(b)
      BY <1>1, <1>4, <3>2 DEF IInv, MissingInv
    <3> QED
      BY <1>8, <1>9, <3>1, <3>2
  <2>3. LinksOf(n, version[b])' = {}
    BY <1>2, <2>2 DEF LinksOf
  <2>4. ~Told(b, n)' /\ pc'[b] # "upload"
    BY <1>8, <1>9 DEF Told
  <2> QED
    BY <1>2, <2>1, <2>3, <2>4 DEF Says
<1>10. /\ OwnInv' /\ ExclInv' /\ MissingInv'
       /\ \A c \in Builders : \A n \in Names : \A v \in Versions :
            Reported(c, n, v) => Reported(c, n, v)'
  <2>1. ASSUME NEW n \in Names, NEW v \in Versions
        PROVE  /\ status[n][v] \in Verdicts \/ status'[n][v] = "missing"
                    => Kept(n, v)
               /\ Kept(n, v) \/ status[n][v] = "missing"
    BY <1>1, <1>4 DEF Verdicts
  <2>2. ASSUME NEW n \in Names, Owns(b, n)'
        PROVE  /\ version'[b] = version[b]
               /\ Owns(b, n) \/ status[n][version[b]] = "missing"
               /\ Says(b, n)'
    BY <1>1, <1>2, <1>8, <1>9, <2>2
  <2>3. pc[b] \notin Late
    BY <1>1 DEF Late
  <2> QED
    BY <1>2, <1>4, <2>1, <2>2, <2>3, StoresHold
<1>11. StatusHasLink'
  <2>1. ASSUME NEW n \in Names, NEW v \in Versions, status'[n][v] \in Verdicts
        PROVE  status[n][v] \in Verdicts
    BY <1>4, <2>1 DEF Verdicts
  <2> QED
    BY <1>2, <1>4, <1>10, <2>1, ReportsHold
<1> QED
  BY <1>5, <1>6, <1>10, <1>11 DEF IInv

(* A run that stops at its claim, or before its last upload, tells nothing  *)
(* and owns nothing any more.                                               *)
LEMMA StopStep ==
  ASSUME IInv, NEW b \in Builders, pc[b] \in {"claim", "upload"},
         pc' = [pc EXCEPT ![b] = "error"],
         \/ UNCHANGED status
         \/ /\ pc[b] = "claim" /\ Unclaimed(b)
            /\ status' = [status EXCEPT ![NextName(b)][version[b]] = "inflight"],
         UNCHANGED <<source, repo, attempt, fleet, clone, version, outcome, sent>>
  PROVE  IInv'
<1>1. UNCHANGED <<fleet, tree, versionFile, specs, links, tries, checkout,
                  clone, unprocessed, version, verdict, passed, sent>>
  BY DEF source, repo, attempt, outcome
<1>2. /\ pc' \in [Builders -> Searching \cup Holding \cup Ended]
      /\ pc'[b] = "error" /\ \A c \in Builders \ {b} : pc'[c] = pc[c]
  BY DEF IInv, TypeOK, Ended
<1>3. /\ status' \in [Names -> [Versions -> Statuses]]
      /\ \A n \in Names, v \in Versions :
           \/ status'[n][v] = status[n][v]
           \/ status[n][v] = "missing" /\ status'[n][v] = "inflight"
  <2>1. status \in [Names -> [Versions -> Statuses]] /\ "inflight" \in Statuses
    BY DEF IInv, TypeOK, Statuses
  <2>2. version[b] \in Versions /\ NextName(b) \in Names
    BY NextIsNext DEF IInv, PublishInv, Holding
  <2>3. CASE UNCHANGED status
    BY <2>1, <2>3
  <2>4. CASE /\ status[NextName(b)][version[b]] = "missing"
             /\ status' = [status EXCEPT ![NextName(b)][version[b]] = "inflight"]
    BY ONLY <2>1, <2>2, <2>4
  <2> QED
    BY <2>3, <2>4 DEF Unclaimed
<1>4. TypeOK'
  BY <1>1, <1>2, <1>3 DEF IInv, TypeOK, NamesOf
<1>5. VersionInv' /\ PublishInv' /\ SentInv'
  BY <1>1, <1>2 DEF IInv, VersionInv, PublishInv, SentInv, Holding
<1>6. \A c \in Builders \ {b} : Stays(c)
  BY <1>1, <1>2 DEF Stays
<1>7. /\ OwnInv' /\ ExclInv' /\ MissingInv'
      /\ \A c \in Builders : \A n \in Names : \A v \in Versions :
           Reported(c, n, v) => Reported(c, n, v)'
  <2>1. ASSUME NEW n \in Names, NEW v \in Versions
        PROVE  /\ status[n][v] \in Verdicts \/ status'[n][v] = "missing"
                    => Kept(n, v)
               /\ Kept(n, v) \/ status[n][v] = "missing"
    BY <1>1, <1>3 DEF Kept, LinksOf, Verdicts
  <2>2. \A n \in Names : ~Owns(b, n)'
    BY <1>2 DEF Owns, Holding
  <2>3. pc'[b] \in Late
    BY <1>2 DEF Late
  <2> QED
    BY <1>1, <1>6, <2>1, <2>2, <2>3, StoresHold
<1>8. StatusHasLink'
  <2>1. ASSUME NEW n \in Names, NEW v \in Versions, status'[n][v] \in Verdicts
        PROVE  status[n][v] \in Verdicts
    BY <1>3, <2>1 DEF Verdicts
  <2> QED
    BY <1>1, <1>2, <1>6, <1>7, <2>1, ReportsHold
<1> QED
  BY <1>4, <1>5, <1>7, <1>8 DEF IInv

(* The links are pushed for names that are owned and not told of. *)
LEMMA PushStep ==
  ASSUME IInv, NEW b \in Builders, PushLink(b)
  PROVE  IInv'
<1> DEFINE new == {Link(n, version[b], OwnVerdict(b, n)) : n \in Named(b)}
<1>1. /\ pc[b] = "link" /\ clone[b].links = links
      /\ links' = links \cup new
      /\ clone' = [clone EXCEPT ![b].links = links']
      /\ pc' = [pc EXCEPT ![b] = "upload"]
      /\ UNCHANGED <<fleet, tree, versionFile, specs, status, tries, checkout,
                     unprocessed, version, verdict, passed, sent>>
  BY DEF PushLink, UpToDate, Repo, source, attempt, outcome
<1>2. version[b] \in Versions /\ sent[b] = 0 /\ Named(b) \subseteq Names
  BY <1>1, NamesOfRun DEF IInv, PublishInv, SentInv, Holding
<1>3. links' \subseteq Links
  BY <1>1, <1>2 DEF IInv, TypeOK, Links, Link, OwnVerdict, Verdicts
<1>4. /\ clone' \in [Builders -> [specs : SpecMaps, links : SUBSET Links]]
      /\ \A c \in Builders : clone'[c].specs = clone[c].specs
  <2>1. clone \in [Builders -> [specs : SpecMaps, links : SUBSET Links]]
    BY DEF IInv, TypeOK
  <2>2. [clone[b] EXCEPT !.links = links']
          \in [specs : SpecMaps, links : SUBSET Links]
    BY <1>3, <2>1
  <2> QED
    BY <1>1, <2>1, <2>2
<1>5. /\ pc' \in [Builders -> Searching \cup Holding \cup Ended]
      /\ pc'[b] = "upload" /\ \A c \in Builders \ {b} : pc'[c] = pc[c]
  BY <1>1 DEF IInv, TypeOK, Holding
<1>6. TypeOK'
  BY <1>1, <1>3, <1>4, <1>5 DEF IInv, TypeOK, NamesOf
<1>7. VersionInv' /\ PublishInv' /\ SentInv'
  BY <1>1, <1>2, <1>4, <1>5
  DEF IInv, VersionInv, PublishInv, SentInv, Holding
<1>8. \A c \in Builders \ {b} : Stays(c)
  BY <1>1, <1>5 DEF Stays
<1>9. ASSUME NEW n \in Names, NEW v \in Versions
      PROVE  LinksOf(n, v)' = IF n \in Named(b) /\ v = version[b]
                              THEN LinksOf(n, v) \cup {OwnVerdict(b, n)}
                              ELSE LinksOf(n, v)
  <2>1. OwnVerdict(b, n) \in Verdicts
    BY DEF OwnVerdict, Verdicts
  <2>2. ASSUME NEW w \in Verdicts
        PROVE  Link(n, v, w) \in new <=>
                 n \in Named(b) /\ v = version[b] /\ w = OwnVerdict(b, n)
    BY DEF Link
  <2>3. ASSUME NEW w \in Verdicts
        PROVE  Link(n, v, w) \in links' <=>
                 Link(n, v, w) \in links \/ Link(n, v, w) \in new
    BY <1>1
  <2> HIDE DEF new
  <2>4. LinksOf(n, v)' = {w \in Verdicts : Link(n, v, w) \in links'}
    BY DEF LinksOf, Link
  <2> QED
    BY <2>1, <2>2, <2>3, <2>4 DEF LinksOf
<1>10. ASSUME NEW n \in Named(b)
       PROVE  /\ Owns(b, n) /\ ~Told(b, n)' /\ n \in Names
              /\ status[n][version[b]] = "inflight"
              /\ LinksOf(n, version[b]) = {}
  <2>1. Owns(b, n) /\ n \in Names /\ ~Told(b, n)
    BY <1>1, <1>2 DEF Owns, Holding, Told
  <2>2. Says(b, n)
    BY <2>1 DEF IInv, OwnInv
  <2>3. ~Through(b, n)'
    BY <1>1, <1>2 DEF Through
  <2> QED
    BY <1>1, <2>1, <2>2, <2>3 DEF Says, Told
<1>11. ASSUME NEW n \in Names, Owns(b, n)'
       PROVE  Owns(b, n) /\ Says(b, n)'
  <2>1. n \in Named(b)
    BY <1>1, <1>11 DEF Owns, Named, NamesOf
  <2>2. LinksOf(n, version[b])' = {OwnVerdict(b, n)}
    BY <1>1, <1>2, <1>9, <1>10, <2>1 DEF LinksOf
  <2>3. OwnVerdict(b, n)' = OwnVerdict(b, n)
    BY <1>1 DEF OwnVerdict
  <2> QED
    BY <1>1, <1>5, <1>10, <2>1, <2>2, <2>3 DEF Says
<1>12. /\ OwnInv' /\ ExclInv' /\ MissingInv'
       /\ \A c \in Builders : \A n \in Names : \A v \in Versions :
            Reported(c, n, v) => Reported(c, n, v)'
  <2>1. ASSUME NEW n \in Names, NEW v \in Versions
        PROVE  /\ status[n][v] \in Verdicts \/ status'[n][v] = "missing"
                    => Kept(n, v)
               /\ Kept(n, v) \/ (v = version[b] /\ Owns(b, n))
    BY <1>1, <1>9, <1>10 DEF Kept, Verdicts
  <2>2. pc[b] \notin Late
    BY <1>1 DEF Late
  <2> QED
    BY <1>1, <1>8, <1>11, <2>1, <2>2, StoresHold
<1>13. StatusHasLink'
  BY <1>1, <1>5, <1>8, <1>12, ReportsHold
<1> QED
  BY <1>6, <1>7, <1>12, <1>13 DEF IInv

(* The status is uploaded for a name that is owned, and has its link. *)
LEMMA UploadStep ==
  ASSUME IInv, NEW b \in Builders, UploadStatus(b)
  PROVE  IInv'
<1>1. /\ pc[b] = "upload" /\ Uploads(b, verdict[b], "done")
      /\ UNCHANGED <<source, repo, attempt, fleet, clone, version, outcome>>
  BY DEF UploadStatus
<1>2. UNCHANGED <<fleet, tree, versionFile, specs, links, tries, checkout,
                  clone, unprocessed, version, verdict, passed>>
  BY <1>1 DEF source, repo, attempt, outcome
<1>3. verdict[b] \in Verdicts /\ verdict[b] \in Statuses
  BY DEF IInv, TypeOK, Statuses
<1>4. /\ version[b] \in Versions
      /\ status' \in [Names -> [Versions -> Statuses]]
      /\ \A n \in Names, v \in Versions :
           status'[n][v] = IF n = NextName(b) /\ v = version[b]
                           THEN verdict[b] ELSE status[n][v]
      /\ \A n \in Names, v \in Versions :
           Kept(n, v) \/ (n = NextName(b) /\ v = version[b])
      /\ \/ /\ sent[b] + 1 = Len(NamesOf(b))
            /\ pc'[b] = "done" /\ sent'[b] = 0
         \/ /\ sent[b] + 1 # Len(NamesOf(b))
            /\ pc'[b] = "upload" /\ sent'[b] = sent[b] + 1
      /\ \A c \in Builders \ {b} : Stays(c)
      /\ pc' \in [Builders -> Searching \cup Holding \cup Ended]
      /\ sent' \in [Builders -> Nat]
      /\ \A c \in Builders : sent'[c] < Len(NamesOf(c))
  <2>1. UNCHANGED <<fleet, links, version, outcome>>
    BY <1>1 DEF repo
  <2> QED
    BY <1>1, <1>3, <2>1, UploadsOne
<1>5. TypeOK'
  BY <1>2, <1>4 DEF IInv, TypeOK, NamesOf
<1>6. VersionInv' /\ PublishInv' /\ SentInv'
  <2>1. \A c \in Builders \ {b} : pc'[c] = pc[c] /\ sent'[c] = sent[c]
    BY <1>4 DEF Stays
  <2>2. VersionInv'
    BY <1>2 DEF IInv, VersionInv
  <2>3. PublishInv'
    BY <1>2, <1>4, <2>1 DEF IInv, PublishInv
  <2>4. SentInv'
    BY <1>4, <2>1 DEF IInv, SentInv
  <2> QED
    BY <2>2, <2>3, <2>4
<1>7. NextName(b) \in Names /\ NextName(b) \in Named(b)
  BY NextIsNext
<1>8. ASSUME NEW n \in Named(b)
      PROVE  /\ n \in Names /\ Owns(b, n)
             /\ LinksOf(n, version[b])' = {OwnVerdict(b, n)}
             /\ OwnVerdict(b, n)' = OwnVerdict(b, n)
             /\ status[n][version[b]] =
                  IF Through(b, n) THEN verdict[b] ELSE "inflight"
  <2>1. n \in Names /\ Owns(b, n)
    BY <1>1, NamesOfRun DEF IInv, Owns, Holding
  <2>2. Says(b, n)
    BY <2>1 DEF IInv, OwnInv
  <2>3. LinksOf(n, version[b])' = LinksOf(n, version[b])
    BY <1>2 DEF LinksOf
  <2> QED
    BY <1>1, <1>2, <2>1, <2>2, <2>3 DEF Says, Told, OwnVerdict
<1>9. ASSUME NEW n \in Named(b)
      PROVE  status'[n][version[b]] =
               IF Through(b, n) \/ n = NextName(b)
               THEN verdict[b] ELSE "inflight"
  BY <1>4, <1>8
<1>10. status[NextName(b)][version[b]] = "inflight"
  BY <1>7, <1>8, NextIsNext
<1>11. ASSUME NEW n \in Names, Owns(b, n)'
       PROVE  Owns(b, n) /\ Says(b, n)'
  <2>1. n \in Named(b)
    BY <1>2, <1>11 DEF Owns, Named, NamesOf
  <2>2. pc'[b] = "upload" /\ sent'[b] = sent[b] + 1
    BY <1>4, <1>11 DEF Owns, Holding
  <2>3. Told(b, n)' <=> Through(b, n) \/ n = NextName(b)
    <3>1. Through(b, n)' <=> Through(b, n) \/ n = NextName(b)
      BY <1>2, <2>2, NextIsNext
    <3> QED
      BY <2>2, <3>1 DEF Told
  <2> QED
    BY <1>2, <1>8, <1>9, <2>1, <2>2, <2>3 DEF Says
<1>12. /\ OwnInv' /\ ExclInv' /\ MissingInv'
       /\ \A c \in Builders : \A n \in Names : \A v \in Versions :
            Reported(c, n, v) => Reported(c, n, v)'
  <2>1. ASSUME NEW n \in Names, NEW v \in Versions
        PROVE  /\ status[n][v] \in Verdicts \/ status'[n][v] = "missing"
                    => Kept(n, v)
               /\ Kept(n, v) \/ (v = version[b] /\ Owns(b, n))
    <3>1. CASE n = NextName(b) /\ v = version[b]
      BY <1>3, <1>4, <1>7, <1>8, <1>10, <3>1 DEF Verdicts
    <3>2. CASE ~(n = NextName(b) /\ v = version[b])
      BY <1>4, <3>2
    <3> QED
      BY <3>1, <3>2
  <2>2. pc'[b] \in Late
    BY <1>4 DEF Late
  <2> QED
    BY <1>2, <1>4, <1>11, <2>1, <2>2, StoresHold
<1>13. ASSUME NEW n \in Named(b), Through(b, n) \/ n = NextName(b),
              NEW v \in Versions, v = version[b]
       PROVE  Reported(b, n, v)'
  <2>1. /\ pc'[b] \in {"upload", "done", "error"} /\ n \in Named(b)'
        /\ version'[b] = v /\ verdict'[b] = verdict[b]
    BY <1>2, <1>4, <1>13 DEF Named, NamesOf
  <2>2. LinksOf(n, v)' = {OwnVerdict(b, n)} /\ OwnVerdict(b, n)' = OwnVerdict(b, n)
    BY <1>2, <1>8, <1>13 DEF LinksOf
  <2>3. status'[n][v] = verdict[b]
    BY <1>9, <1>13
  <2> QED
    BY <2>1, <2>2, <2>3 DEF Reported
<1>14. StatusHasLink'
  <2>1. ASSUME NEW n \in Names, NEW v \in Versions, status'[n][v] \in Verdicts
        PROVE  status[n][v] \in Verdicts \/ Reported(b, n, v)'
    <3>1. CASE n = NextName(b) /\ v = version[b]
      BY <1>7, <1>13, <3>1
    <3>2. CASE ~(n = NextName(b) /\ v = version[b])
      BY <1>4, <2>1, <3>2
    <3> QED
      BY <3>1, <3>2
  <2>2. ASSUME pc'[b] = "done", NEW n \in Named(b)
        PROVE  Reported(b, n, version[b])'
    <3>1. Through(b, n) \/ n = NextName(b)
      BY <1>1, <1>4, <2>2, NextIsNext
    <3>2. \A v \in Versions : v = version[b] => Reported(b, n, v)'
      BY <1>13, <3>1
    <3> QED
      BY <1>2, <1>4, <3>2 DEF Reported
  <2> QED
    BY <1>2, <1>4, <1>12, <2>1, <2>2, ReportsHold
<1> QED
  BY <1>5, <1>6, <1>12, <1>14 DEF IInv

-----------------------------------------------------------------------------
(* No step of a run, and no commit to the source, breaks the invariant. *)
LEMMA StepInv == IInv /\ [Next]_vars => IInv'
<1> SUFFICES ASSUME IInv, [Next]_vars PROVE IInv'
  OBVIOUS
<1> USE DEF IInv
<1>1. CASE UNCHANGED vars
  <2>1. UNCHANGED <<fleet, tree, versionFile, specs, links, status, pc, tries>>
    BY <1>1 DEF vars
  <2>2. UNCHANGED <<checkout, clone, unprocessed, version, verdict, passed, sent>>
    BY <1>1 DEF vars, outcome
  <2>3. TypeOK' /\ VersionInv' /\ PublishInv' /\ SentInv'
    BY <2>1, <2>2
    DEF TypeOK, NamesOf, VersionInv, PublishInv, SentInv
  <2> QED
    BY <2>1, <2>2, <2>3, NothingSaid
<1>2. CASE Land
  <2>1. /\ tree' = tree + 1 /\ tree < MaxTree
        /\ UNCHANGED <<fleet, versionFile, specs, links, status, pc, tries>>
        /\ UNCHANGED <<checkout, clone, unprocessed, version, verdict, passed,
                       sent>>
    BY <1>2 DEF Land, repo, attempt, outcome
  <2>2. tree' \in 0 .. MaxTree
    BY <2>1, SpecsAssumption DEF TypeOK
  <2>3. TypeOK' /\ VersionInv' /\ PublishInv' /\ SentInv'
    BY <2>1, <2>2
    DEF TypeOK, NamesOf, VersionInv, PublishInv, SentInv
  <2> QED
    BY <2>1, <2>3, NothingSaid
<1>3. ASSUME NEW b \in Builders, Step(b) PROVE IInv'
  <2> USE DEF shared, source, repo, attempt, outcome
  <2>a. /\ clone[b] \in [specs : SpecMaps, links : SUBSET Links]
        /\ clone[b].specs \in SpecMaps /\ clone[b].links \subseteq Links
        /\ checkout[b] \in Manifests
        /\ checkout[b].version \in Versions /\ checkout[b].tree \in 0 .. MaxTree
        /\ versionFile \in 1 .. MaxVersion /\ MaxVersion \in Nat
        /\ Repo \in [specs : SpecMaps, links : SUBSET Links]
    BY SpecsAssumption DEF TypeOK, Manifests, Versions, Repo
  <2>b. DOMAIN clone[b].specs \subseteq Versions /\ DOMAIN specs \subseteq Versions
    BY <2>a DEF TypeOK, SpecMaps
  <2>c. /\ LatestOf(clone[b].specs) \in 0 .. MaxVersion
        /\ LatestOf(clone[b].specs) <= versionFile
        /\ \A v \in DOMAIN clone[b].specs : v <= LatestOf(clone[b].specs)
    BY <2>a, <2>b, LatestIsHighest DEF VersionInv, Versions
  <2>1. CASE Checkout(b)
    <3>1. TypeOK'
      BY <2>1 DEF Checkout, TypeOK, NamesOf, Manifests, Searching
    <3>2. VersionInv' /\ PublishInv'
      BY <2>1 DEF Checkout, TypeOK, VersionInv, PublishInv, Holding, Versions
    <3>3. /\ UNCHANGED <<fleet, links, status, sent>>
          /\ \A c \in Builders \ {b} : Stays(c)
      BY <2>1 DEF TypeOK, Stays, Checkout
    <3>4. pc[b] = "checkout" /\ pc'[b] = "refresh"
      BY <2>1 DEF Checkout, TypeOK
    <3> QED
      BY <3>1, <3>2, <3>3, <3>4, QuietStep DEF Holding
  <2>2. CASE RefreshManifestCheckout(b)
    <3>1. TypeOK'
      BY <2>2
      DEF RefreshManifestCheckout, TypeOK, NamesOf, Repo, Searching, Holding
    <3>2. VersionInv' /\ PublishInv'
      BY <2>2 DEF RefreshManifestCheckout, TypeOK, VersionInv, PublishInv,
                  Holding, Repo
    <3>3. /\ UNCHANGED <<fleet, links, status, sent>>
          /\ \A c \in Builders \ {b} : Stays(c)
      BY <2>2 DEF TypeOK, Stays, RefreshManifestCheckout
    <3>4. /\ UNCHANGED version
          /\ \/ pc[b] = "refresh" /\ pc'[b] = "look"
             \/ pc[b] = "fetch" /\ pc'[b] = "link"
      BY <2>2 DEF RefreshManifestCheckout, TypeOK
    <3> QED
      BY <3>1, <3>2, <3>3, <3>4, QuietStep DEF Holding
  <2>3. CASE LookUp(b)
    <3> DEFINE next == IF LatestStatus(b) = "missing" /\ Latest(b) # 0
                       THEN Latest(b) ELSE unprocessed[b]
    <3>1. next \in 0 .. MaxVersion
      BY <2>c DEF TypeOK, Latest
    <3>2. unprocessed' = [unprocessed EXCEPT ![b] = next]
      BY <2>3 DEF LookUp
    <3>3. UNCHANGED <<shared, tries, checkout, clone, outcome, sent>>
      BY <2>3 DEF LookUp
    <3>4. \/ /\ \/ pc' = [pc EXCEPT ![b] = "idle"]
                \/ pc' = [pc EXCEPT ![b] = "number"]
             /\ UNCHANGED version
          \/ /\ pc' = [pc EXCEPT ![b] = "claim"]
             /\ next # 0
             /\ version' = [version EXCEPT ![b] = next]
      BY <2>3 DEF LookUp
    <3> HIDE DEF next
    <3>5. TypeOK'
      <4>1. /\ unprocessed' \in [Builders -> 0 .. MaxVersion]
            /\ version' \in [Builders -> 0 .. MaxVersion]
        BY <3>1, <3>2, <3>4 DEF TypeOK
      <4>2. pc' \in [Builders -> Searching \cup Holding \cup Ended]
        BY <3>4 DEF TypeOK, Searching, Ended
      <4> QED
        BY <3>3, <4>1, <4>2 DEF TypeOK, NamesOf
    <3>6. VersionInv'
      BY <3>3 DEF VersionInv
    <3>7. PublishInv'
      BY <3>1, <3>3, <3>4, <2>a DEF PublishInv, TypeOK, Holding, Versions
    <3>8. /\ UNCHANGED <<fleet, links, status, sent>>
          /\ \A c \in Builders \ {b} : Stays(c)
      BY <3>3, <3>4 DEF TypeOK, Stays
    <3>9. pc[b] = "look" /\ pc'[b] \in {"idle", "number", "claim"}
      BY <2>3, <3>4 DEF LookUp, TypeOK
    <3> QED
      BY <3>5, <3>6, <3>7, <3>8, <3>9, QuietStep DEF Holding
  <2>4. CASE KeepVersion(b)
    <3>1. TypeOK'
      BY <2>4 DEF KeepVersion, TypeOK, NamesOf, Manifests, Versions, Searching
    <3>2. VersionInv' /\ PublishInv'
      BY <2>4 DEF KeepVersion, Latest, TypeOK, VersionInv, PublishInv, Holding,
                  Manifests
    <3>3. /\ UNCHANGED <<fleet, links, status, sent>>
          /\ \A c \in Builders \ {b} : Stays(c)
      BY <2>4 DEF TypeOK, Stays, KeepVersion
    <3>4. pc[b] = "number" /\ pc'[b] = "publish"
      BY <2>4 DEF KeepVersion, TypeOK
    <3> QED
      BY <3>1, <3>2, <3>3, <3>4, QuietStep DEF Holding
  <2>5. CASE IncrementVersion(b)
    <3>1. /\ checkout[b].version = versionFile
          /\ versionFile + 1 \in Versions
      BY <2>5, <2>a DEF IncrementVersion, VersionFileAtHead, Versions
    <3>2. AfterPush(checkout[b]) \in Manifests
          /\ AfterPush(checkout[b]).version = versionFile + 1
      BY <3>1, <2>a DEF AfterPush, Manifests
    <3>3. checkout' = [checkout EXCEPT ![b] = AfterPush(checkout[b])]
      BY <2>5 DEF IncrementVersion
    <3>4. /\ checkout' \in [Builders -> Manifests]
          /\ checkout'[b].version = versionFile + 1
          /\ \A c \in Builders \ {b} : checkout'[c] = checkout[c]
      BY <3>2, <3>3 DEF TypeOK
    <3>5. TypeOK'
      BY <2>5, <3>1, <3>4
      DEF IncrementVersion, TypeOK, NamesOf, Searching, Versions
    <3>6. VersionInv'
      <4>1. \A v \in DOMAIN specs : v <= versionFile + 1
        BY <2>a, <2>b DEF VersionInv, Versions
      <4>2. ASSUME NEW c \in Builders
            PROVE  /\ checkout'[c].version <= versionFile + 1
                   /\ \A v \in DOMAIN clone[c].specs : v <= versionFile + 1
        <5>1. DOMAIN clone[c].specs \subseteq Versions
              /\ checkout[c].version \in Versions
          BY DEF TypeOK, SpecMaps, Manifests
        <5> QED
          BY <5>1, <2>a, <3>4 DEF VersionInv, Versions
      <4> QED
        BY <4>1, <4>2, <2>5 DEF IncrementVersion, VersionInv
    <3>7. PublishInv'
      <4>1. LatestOf(clone[b].specs) # versionFile + 1
        BY <2>a, <2>c
      <4> QED
        BY <4>1, <2>5, <3>1, <3>4 DEF IncrementVersion, PublishInv, TypeOK,
             Holding
    <3>8. /\ UNCHANGED <<fleet, links, status, sent>>
          /\ \A c \in Builders \ {b} : Stays(c)
      BY <2>5 DEF TypeOK, Stays, IncrementVersion
    <3>9. pc[b] = "number" /\ pc'[b] = "publish"
      BY <2>5 DEF IncrementVersion, TypeOK
    <3> QED
      BY <3>5, <3>6, <3>7, <3>8, <3>9, QuietStep DEF Holding
  <2>6. CASE PublishManifest(b)
    <3> DEFINE pushed == SpecsWith(clone[b].specs, version[b], checkout[b])
    <3>1. /\ pc[b] = "publish" /\ pc' = [pc EXCEPT ![b] = "claim"]
          /\ specs' = pushed
          /\ clone' = [clone EXCEPT ![b].specs = pushed]
          /\ UNCHANGED <<source, attempt, fleet, links, status, version, outcome,
                         sent>>
      BY <2>6 DEF PublishManifest
    <3>2. version[b] \in Versions /\ version[b] = checkout[b].version
      BY <3>1 DEF PublishInv
    <3>3. /\ pushed \in SpecMaps
          /\ DOMAIN pushed = DOMAIN clone[b].specs \cup {version[b]}
      BY <3>2, <2>a, SpecsWithAdds
    <3> HIDE DEF pushed
    <3>4. /\ clone' \in [Builders -> [specs : SpecMaps, links : SUBSET Links]]
          /\ clone'[b].specs = pushed
          /\ \A c \in Builders \ {b} : clone'[c] = clone[c]
      BY <3>1, <3>3, <2>a DEF TypeOK
    <3>5. TypeOK'
      BY <3>1, <3>3, <3>4 DEF TypeOK, NamesOf, Searching
    <3>6. VersionInv'
      <4>1. version[b] <= versionFile /\ versionFile' = versionFile
            /\ checkout' = checkout
        BY <3>1, <3>2 DEF VersionInv
      <4>2. \A v \in DOMAIN pushed : v <= versionFile
        BY <3>3, <4>1 DEF VersionInv
      <4>3. \A c \in Builders : \A v \in DOMAIN clone'[c].specs : v <= versionFile
        BY <3>4, <4>2 DEF VersionInv
      <4> QED
        BY <3>1, <4>1, <4>2, <4>3 DEF VersionInv
    <3>7. PublishInv'
      BY <3>1, <3>2, <3>4 DEF TypeOK, PublishInv, Holding
    <3>8. /\ UNCHANGED <<fleet, links, status, sent>>
          /\ \A c \in Builders \ {b} : Stays(c)
      BY <3>1 DEF TypeOK, Stays
    <3>9. pc[b] = "publish" /\ pc'[b] = "claim"
      BY <3>1 DEF TypeOK
    <3> QED
      BY <3>5, <3>6, <3>7, <3>8, <3>9, QuietStep DEF Holding
  <2>7. CASE AttemptFails(b)
    <3>0. /\ pc' \in [Builders -> Searching \cup Holding \cup Ended]
          /\ tries' \in [Builders -> 0 .. Retries]
          /\ clone' \in [Builders -> [specs : SpecMaps, links : SUBSET Links]]
          /\ UNCHANGED <<shared, checkout, unprocessed, version, outcome, sent>>
      <4>1. CASE OutOfTries(b)
        <5>1. /\ pc' = [pc EXCEPT ![b] = "error"]
              /\ clone' = [clone EXCEPT ![b] = Repo]
              /\ UNCHANGED tries
              /\ UNCHANGED <<shared, checkout, unprocessed, version, outcome, sent>>
          BY <2>7, <4>1 DEF AttemptFails
        <5>2. clone' \in [Builders -> [specs : SpecMaps, links : SUBSET Links]]
          BY <5>1, <2>a DEF TypeOK
        <5> QED
          BY <5>1, <5>2 DEF TypeOK, Ended
      <4>2. CASE ~OutOfTries(b)
        <5>1. /\ pc' = [pc EXCEPT ![b] = "checkout"]
              /\ tries' = [tries EXCEPT ![b] = tries[b] + 1]
              /\ UNCHANGED clone
              /\ UNCHANGED <<shared, checkout, unprocessed, version, outcome, sent>>
          BY <2>7, <4>2 DEF AttemptFails
        <5>2. tries[b] + 1 \in 0 .. Retries
          <6>1. tries[b] \in 0 .. Retries /\ tries[b] # Retries
            BY <4>2 DEF OutOfTries, TypeOK
          <6>2. Retries \in Nat
            BY SpecsAssumption
          <6> QED
            BY <6>1, <6>2
        <5>3. tries' \in [Builders -> 0 .. Retries]
          BY <5>1, <5>2 DEF TypeOK
        <5> QED
          BY <5>1, <5>3 DEF TypeOK, Searching
      <4> QED
        BY <4>1, <4>2
    <3>1. TypeOK'
      BY <3>0 DEF TypeOK, NamesOf
    <3>2. VersionInv'
      <4>1. \A c \in Builders :
              clone'[c] = clone[c] \/ clone'[c].specs = specs
        BY <2>7 DEF AttemptFails, TypeOK, Repo
      <4> QED
        BY <3>0, <4>1 DEF VersionInv
    <3>3. \A c \in Builders : pc'[c] = "publish" => c # b /\ clone'[c] = clone[c]
      BY <2>7 DEF AttemptFails, TypeOK
    <3>4. \A c \in Builders : pc'[c] \in Holding \cup {"claim"} => pc'[c] = pc[c]
      BY <2>7 DEF AttemptFails, TypeOK, Holding
    <3>5. PublishInv'
      BY <3>0, <3>3, <3>4, <2>7 DEF AttemptFails, TypeOK, PublishInv
    <3>7. /\ UNCHANGED <<fleet, links, status, sent>>
          /\ \A c \in Builders \ {b} : Stays(c)
      BY <2>7 DEF TypeOK, Stays, AttemptFails
    <3>8. /\ pc[b] \in {"checkout", "refresh", "look", "number", "publish"}
          /\ pc'[b] \in {"error", "checkout"}
          /\ UNCHANGED version
      BY <2>7 DEF AttemptFails, TypeOK
    <3> QED
      BY <3>1, <3>2, <3>5, <3>7, <3>8, QuietStep DEF Holding
  <2>8. CASE SetInFlight(b)
    BY <2>8, ClaimStep
  <2>9. CASE ClaimFails(b)
    BY <2>9, StopStep DEF ClaimFails
  <2>10. CASE Build(b)
    <3>0. /\ pc[b] = "build" /\ pc' = [pc EXCEPT ![b] = "fetch"]
          /\ \E w \in Verdicts : verdict' = [verdict EXCEPT ![b] = w]
          /\ \E ns \in SUBSET Named(b) : passed' = [passed EXCEPT ![b] = ns]
          /\ tries' = [tries EXCEPT ![b] = 0]
          /\ UNCHANGED <<shared, checkout, clone, unprocessed, version, sent>>
      BY <2>10 DEF Build
    <3>1. TypeOK'
      <4>1. verdict' \in [Builders -> Verdicts]
        BY <3>0 DEF TypeOK
      <4>2. passed' \in [Builders -> SUBSET Names]
        <5>1. Named(b) \subseteq Names
          BY NamesOfRun
        <5> QED
          BY <3>0, <5>1 DEF TypeOK
      <4>3. tries' \in [Builders -> 0 .. Retries]
        BY <3>0, SpecsAssumption DEF TypeOK
      <4> QED
        BY <3>0, <4>1, <4>2, <4>3 DEF TypeOK, NamesOf, Holding
    <3>2. VersionInv' /\ PublishInv'
      BY <3>0 DEF TypeOK, VersionInv, PublishInv, Holding
    <3>3. /\ UNCHANGED <<fleet, links, status, sent>>
          /\ \A c \in Builders \ {b} : Stays(c)
      BY <3>0 DEF TypeOK, Stays
    <3>4. pc[b] = "build" /\ pc'[b] = "fetch" /\ UNCHANGED version
      BY <3>0 DEF TypeOK
    <3> QED
      BY <3>1, <3>2, <3>3, <3>4, QuietStep DEF Holding
  <2>11. CASE UpdateFails(b)
    <3>0. /\ pc' \in [Builders -> Searching \cup Holding \cup Ended]
          /\ tries' \in [Builders -> 0 .. Retries]
          /\ clone' \in [Builders -> [specs : SpecMaps, links : SUBSET Links]]
          /\ UNCHANGED <<shared, checkout, unprocessed, version, outcome, sent>>
      <4>1. CASE OutOfTries(b)
        <5>1. /\ pc' = [pc EXCEPT ![b] = "error"]
              /\ clone' = [clone EXCEPT ![b] = Repo]
              /\ UNCHANGED tries
              /\ UNCHANGED <<shared, checkout, unprocessed, version, outcome, sent>>
          BY <2>11, <4>1 DEF UpdateFails, GivenUp
        <5>2. clone' \in [Builders -> [specs : SpecMaps, links : SUBSET Links]]
          BY <5>1, <2>a DEF TypeOK
        <5> QED
          BY <5>1, <5>2 DEF TypeOK, Ended
      <4>2. CASE ~OutOfTries(b)
        <5>1. /\ pc' = [pc EXCEPT ![b] = "fetch"]
              /\ tries' = [tries EXCEPT ![b] = tries[b] + 1]
              /\ UNCHANGED clone
              /\ UNCHANGED <<shared, checkout, unprocessed, version, outcome, sent>>
          BY <2>11, <4>2 DEF UpdateFails
        <5>2. tries[b] + 1 \in 0 .. Retries
          <6>1. tries[b] \in 0 .. Retries /\ tries[b] # Retries
            BY <4>2 DEF OutOfTries, TypeOK
          <6>2. Retries \in Nat
            BY SpecsAssumption
          <6> QED
            BY <6>1, <6>2
        <5>3. tries' \in [Builders -> 0 .. Retries]
          BY <5>1, <5>2 DEF TypeOK
        <5> QED
          BY <5>1, <5>3 DEF TypeOK, Holding
      <4> QED
        BY <4>1, <4>2
    <3>1. TypeOK'
      BY <3>0 DEF TypeOK, NamesOf
    <3>2. VersionInv'
      <4>1. \A c \in Builders :
              clone'[c] = clone[c] \/ clone'[c].specs = specs
        BY <2>11 DEF UpdateFails, GivenUp, TypeOK, Repo
      <4> QED
        BY <3>0, <4>1 DEF VersionInv
    <3>3. \A c \in Builders : pc'[c] = "publish" =>
            pc[c] = "publish" /\ clone'[c] = clone[c]
      BY <2>11 DEF UpdateFails, GivenUp, TypeOK
    <3>4. \A c \in Builders : pc'[c] \in Holding =>
            pc[c] \in Holding /\ (pc'[c] = "upload" => pc[c] = "upload")
      BY <2>11 DEF UpdateFails, GivenUp, TypeOK, Holding
    <3>5. \A c \in Builders : pc'[c] \in {"claim", "done"} => pc'[c] = pc[c]
      BY <2>11 DEF UpdateFails, GivenUp, TypeOK
    <3>6. PublishInv'
      BY <3>0, <3>3, <3>4, <3>5 DEF PublishInv
    <3>7. /\ UNCHANGED <<fleet, links, status, sent>>
          /\ \A c \in Builders \ {b} : Stays(c)
      BY <2>11 DEF TypeOK, Stays, UpdateFails, GivenUp
    <3>8. /\ pc[b] \in {"fetch", "link"}
          /\ pc'[b] \in {"error", "fetch"}
          /\ UNCHANGED version
      BY <2>11 DEF UpdateFails, GivenUp, TypeOK
    <3> QED
      BY <3>1, <3>2, <3>6, <3>7, <3>8, QuietStep DEF Holding
  <2>12. CASE PushLink(b)
    BY <2>12, PushStep
  <2>13. CASE UploadStatus(b)
    BY <2>13, UploadStep
  <2>14. CASE UploadFails(b)
    BY <2>14, StopStep DEF UploadFails
  <2> QED
    BY <1>3, <2>1, <2>2, <2>3, <2>4, <2>5, <2>6, <2>7, <2>8, <2>9, <2>10,
       <2>11, <2>12, <2>13, <2>14 DEF Step
<1> QED
  BY <1>1, <1>2, <1>3 DEF Next

(* IInv is an invariant of the runs. *)
(* IInv is an invariant of the runs. *)
LEMMA Invariance == Spec => []IInv
  BY InitInv, StepInv, PTL DEF Spec

(* The claim is exclusive, however many runs race for it. *)
THEOREM OneClaim == Spec => []ClaimIsExclusive
<1>1. IInv => ClaimIsExclusive
  BY OwnersDiffer DEF IInv
<1> QED
  BY Invariance, <1>1, PTL

(* Google Storage says what one run found, and of each name manifest-versions *)
(* has what the same run found of it.                                         *)
THEOREM LinkBeforeStatus == Spec => []StatusHasLink
  BY Invariance, PTL DEF IInv

(* Specs stay, and grow, except where a stale checkout is published. *)
THEOREM SpecsStay == Spec => SpecsOnlyGrow
<1> DEFINE Grows ==
      /\ DOMAIN specs \subseteq DOMAIN specs'
      /\ specs' # specs =>
           \/ \E b \in Builders : pc[b] = "publish" /\ StaleCheckout(b)
           \/ /\ \A v \in DOMAIN specs : specs'[v] = specs[v]
              /\ \A v \in DOMAIN specs, w \in DOMAIN specs' \ DOMAIN specs :
                   v < w
<1>1. ASSUME IInv, Next, UNCHANGED specs PROVE Grows
  BY <1>1
<1>2. ASSUME IInv, NEW b \in Builders, PublishManifest(b) PROVE Grows
  <2>1. /\ pc[b] = "publish" /\ clone[b].specs = specs
        /\ specs' = SpecsWith(specs, version[b], checkout[b])
        /\ specs \in SpecMaps /\ DOMAIN specs \subseteq Versions
        /\ version[b] \in Versions /\ checkout[b] \in Manifests
        /\ version[b] = checkout[b].version /\ version[b] # LatestOf(specs)
    BY <1>2 DEF PublishManifest, UpToDate, Repo, IInv, PublishInv, TypeOK,
                SpecMaps
  <2>2. /\ DOMAIN specs' = DOMAIN specs \cup {version[b]}
        /\ \A w \in DOMAIN specs \ {version[b]} : specs'[w] = specs[w]
    <3>1. /\ DOMAIN SpecsWith(specs, version[b], checkout[b])
               = DOMAIN specs \cup {version[b]}
          /\ \A w \in DOMAIN specs \ {version[b]} :
               SpecsWith(specs, version[b], checkout[b])[w] = specs[w]
      <4>1. /\ specs \in SpecMaps /\ version[b] \in Versions
            /\ checkout[b] \in Manifests
        BY <2>1
      <4> QED
        BY ONLY <4>1, SpecsWithAdds
    <3> QED
      BY <2>1, <3>1
  <2>3. CASE ~StaleCheckout(b)
    <3>1. version[b] = versionFile
      BY <1>2, <2>1, <2>3 DEF IInv, VersionInv, TypeOK, StaleCheckout, Versions
    <3>2. version[b] \notin DOMAIN specs
      BY <1>2, <2>1, <3>1, LatestIsHighest DEF IInv, VersionInv, Versions
    <3>3. \A v \in DOMAIN specs : v < version[b]
      BY <1>2, <2>1, <3>1, <3>2 DEF IInv, VersionInv, Versions
    <3> QED
      BY <2>2, <3>2, <3>3
  <2> QED
    BY <2>1, <2>2, <2>3
<1>3. IInv /\ [Next]_vars => [Grows]_vars
  <2> SUFFICES ASSUME IInv, Next PROVE Grows
    OBVIOUS
  <2>1. UNCHANGED specs \/ \E b \in Builders : PublishManifest(b)
    BY DEF Next, Land, Step, Checkout, RefreshManifestCheckout, LookUp,
           KeepVersion, IncrementVersion, AttemptFails, SetInFlight, ClaimFails,
           Build, UpdateFails, PushLink, UploadStatus, UploadFails, shared, repo
  <2> QED
    BY <1>1, <1>2, <2>1
<1> QED
  BY Invariance, <1>3, PTL DEF Spec, SpecsOnlyGrow
=============================================================================
