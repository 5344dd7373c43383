----------------------------- MODULE BuildSpecs -----------------------------
(***************************************************************************)
(* BuildSpecsManager of cbuildbot/manifest_version.py: builders that share *)
(* a source tree, a manifest-versions repository and a Google Storage      *)
(* bucket agree on numbered build specs without any lock.  A builder syncs *)
(* the source, then looks at manifest-versions; it takes the latest spec   *)
(* if it has not built it, else it numbers and publishes a new one.  It    *)
(* claims the spec in Google Storage, builds, and records the outcome      *)
(* first as symlinks in manifest-versions, then in Google Storage.         *)
(*                                                                         *)
(* A builder of a group answers for several names, its own first: it       *)
(* claims and uploads for each in turn, uploads one status for all, and    *)
(* pushes for each the symlink that its own boards deserve.                *)
(*                                                                         *)
(* A push lands only on the head it was made from.  A command that fails,  *)
(* for that reason or any other, starts the attempt again.  A run that is  *)
(* killed takes no more steps.                                             *)
(***************************************************************************)
EXTENDS Integers, Sequences

CONSTANTS
  Builders,   \* runs of cbuildbot; a restarted builder is another run
  Names,      \* builder names
  Fleets,     \* what the runs may be: build_names and which are masters
  Retries,    \* NUM_RETRIES
  MaxTree,    \* bound: the commits that land in the source tree
  MaxVersion  \* bound: the versions of the version file

ASSUME SpecsAssumption ==
  /\ Fleets \subseteq
       [names : [Builders -> Seq(Names) \ {<<>>}], masters : SUBSET Builders]
  /\ \A f \in Fleets : \A b \in Builders : \A i, j \in DOMAIN f.names[b] :
       f.names[b][i] = f.names[b][j] => i = j
  /\ Retries \in Nat /\ MaxTree \in Nat /\ MaxVersion \in Nat \ {0}

Versions == 1 .. MaxVersion
Manifests == [tree : 0 .. MaxTree, version : Versions]
Verdicts == {"pass", "fail"}
Statuses == Verdicts \cup {"missing", "inflight"}

Searching == {"checkout", "refresh", "look", "number", "publish", "claim"}
Holding == {"build", "fetch", "link", "upload"}
Ended == {"idle", "done", "error"}

VARIABLES
  fleet,        \* build_names and master of each run
  tree,         \* the commits landed in the source tree
  versionFile,  \* chromeos_version.sh at its head
  specs,        \* the build specs in manifest-versions: version to manifest
  links,        \* the pass and fail symlinks in manifest-versions
  status,       \* the builder status in Google Storage
  pc,           \* where each run is
  tries,        \* the failed attempts of the call it is in
  checkout,     \* its source checkout
  clone,        \* its manifest-versions checkout
  unprocessed,  \* latest_unprocessed; 0 for none
  version,      \* the version it settles on; 0 for none
  verdict,      \* |success| of its build, which it uploads
  passed,       \* the names that LocalBuilderStatus has as passed
  sent          \* the names that its loop of uploads is through with

source == <<tree, versionFile>>
repo == <<specs, links>>
shared == <<fleet, source, repo, status>>
attempt == <<tries, checkout, unprocessed>>
outcome == <<verdict, passed>>

NamesOf(b) == fleet.names[b]
Named(b) == {NamesOf(b)[i] : i \in DOMAIN NamesOf(b)}
FirstName(b) == NamesOf(b)[1]
IsMaster(b) == b \in fleet.masters

vars == <<fleet, tree, versionFile, specs, links, status, pc, tries,
          checkout, clone, unprocessed, version, outcome, sent>>

Repo == [specs |-> specs, links |-> links]
LatestOf(s) ==
  IF DOMAIN s = {} THEN 0
  ELSE CHOOSE v \in DOMAIN s : \A w \in DOMAIN s : w <= v

(* Version 1 is published; each name may have built it. *)
Init ==
  /\ fleet \in Fleets
  /\ tree = 0 /\ versionFile = 1
  /\ specs = [v \in {1} |-> [tree |-> 0, version |-> 1]]
  /\ links = {}
  /\ status \in {[n \in Names |-> [v \in Versions |->
                    IF v = 1 /\ \E b \in Builders : n \in Named(b)
                    THEN first[n] ELSE "missing"]] :
                 first \in [Names -> Statuses]}
  /\ pc = [b \in Builders |-> "checkout"]
  /\ tries = [b \in Builders |-> 0]
  /\ checkout = [b \in Builders |-> [tree |-> 0, version |-> 1]]
  /\ clone = [b \in Builders |-> Repo]
  /\ unprocessed = [b \in Builders |-> 0]
  /\ version = [b \in Builders |-> 0]
  /\ verdict = [b \in Builders |-> "fail"]
  /\ passed = [b \in Builders |-> {}]
  /\ sent = [b \in Builders |-> 0]

Land ==
  /\ tree < MaxTree
  /\ tree' = tree + 1
  /\ UNCHANGED <<repo, attempt, fleet, versionFile, status, pc, clone, version,
                 outcome, sent>>

-----------------------------------------------------------------------------
(* GetNextBuildSpec *)

OutOfTries(b) == tries[b] = Retries

(* A git or repo command raises RunCommandError in the attempt. *)
AttemptFails(b) ==
  /\ pc[b] \in {"checkout", "refresh", "look", "number", "publish"}
  /\ IF OutOfTries(b)
     THEN /\ pc' = [pc EXCEPT ![b] = "error"]
          /\ clone' = [clone EXCEPT ![b] = Repo]
          /\ UNCHANGED tries
     ELSE /\ pc' = [pc EXCEPT ![b] = "checkout"]
          /\ tries' = [tries EXCEPT ![b] = @ + 1]
          /\ UNCHANGED clone
  /\ UNCHANGED <<shared, checkout, unprocessed, version, outcome, sent>>

(* CheckoutSourceCode *)
Checkout(b) ==
  /\ pc[b] = "checkout"
  /\ checkout' = [checkout EXCEPT ![b] =
                    [tree |-> tree, version |-> versionFile]]
  /\ pc' = [pc EXCEPT ![b] = "refresh"]
  /\ UNCHANGED <<shared, tries, clone, unprocessed, version, outcome, sent>>

RefreshManifestCheckout(b) ==
  /\ \/ pc[b] = "refresh" /\ pc' = [pc EXCEPT ![b] = "look"]
     \/ pc[b] = "fetch" /\ pc' = [pc EXCEPT ![b] = "link"]
  /\ clone' = [clone EXCEPT ![b] = Repo]
  /\ UNCHANGED <<shared, attempt, version, outcome, sent>>

Latest(b) == LatestOf(clone[b].specs)
LatestStatus(b) ==
  IF Latest(b) = 0 THEN "missing" ELSE status[FirstName(b)][Latest(b)]

HasCheckoutBeenBuilt(b) ==
  LatestStatus(b) = "pass" /\ clone[b].specs[Latest(b)] = checkout[b]

(* InitializeManifestVariables asks Google Storage about the latest spec;   *)
(* latest_unprocessed is never cleared.                                     *)
LookUp(b) ==
  LET next == IF LatestStatus(b) = "missing" /\ Latest(b) # 0
              THEN Latest(b) ELSE unprocessed[b]
  IN /\ pc[b] = "look"
     /\ unprocessed' = [unprocessed EXCEPT ![b] = next]
     /\ \/ /\ HasCheckoutBeenBuilt(b)
           /\ pc' = [pc EXCEPT ![b] = "idle"]
           /\ UNCHANGED version
        \/ /\ ~HasCheckoutBeenBuilt(b)
           /\ IsMaster(b) \/ next = 0
           /\ pc' = [pc EXCEPT ![b] = "number"]
           /\ UNCHANGED version
        \/ /\ ~HasCheckoutBeenBuilt(b)
           /\ ~IsMaster(b) /\ next # 0
           /\ pc' = [pc EXCEPT ![b] = "claim"]
           /\ version' = [version EXCEPT ![b] = next]
     /\ UNCHANGED <<shared, tries, checkout, clone, outcome, sent>>

(* The version of the checkout has no spec yet, or not the latest one. *)
KeepVersion(b) ==
  /\ pc[b] = "number"
  /\ checkout[b].version # Latest(b)
  /\ version' = [version EXCEPT ![b] = checkout[b].version]
  /\ pc' = [pc EXCEPT ![b] = "publish"]
  /\ UNCHANGED <<shared, attempt, clone, outcome, sent>>

(* UpdateVersionFile leaves the checkout at what it pushed. *)
AfterPush(c) == [c EXCEPT !.version = @ + 1]

VersionFileAtHead(b) == versionFile = checkout[b].version

IncrementVersion(b) ==
  /\ pc[b] = "number"
  /\ checkout[b].version = Latest(b)
  /\ VersionFileAtHead(b) /\ versionFile < MaxVersion
  /\ versionFile' = versionFile + 1
  /\ version' = [version EXCEPT ![b] = versionFile + 1]
  /\ checkout' = [checkout EXCEPT ![b] = AfterPush(@)]
  /\ pc' = [pc EXCEPT ![b] = "publish"]
  /\ UNCHANGED <<repo, fleet, tree, status, tries, clone, unprocessed, outcome,
                 sent>>

UpToDate_Force(b) == TRUE
UpToDate(b) == clone[b] = Repo

SpecsWith(s, v, m) == [w \in DOMAIN s \cup {v} |-> IF w = v THEN m ELSE s[w]]

(* PublishManifest; git will not commit a spec that is already there. *)
PublishManifest(b) ==
  LET pushed == SpecsWith(clone[b].specs, version[b], checkout[b])
  IN /\ pc[b] = "publish"
     /\ UpToDate(b) /\ pushed # clone[b].specs
     /\ specs' = pushed
     /\ clone' = [clone EXCEPT ![b].specs = pushed]
     /\ pc' = [pc EXCEPT ![b] = "claim"]
     /\ UNCHANGED <<source, attempt, fleet, links, status, version, outcome,
                    sent>>

-----------------------------------------------------------------------------
(* SetInFlight, with fail_if_exists: one name after the other. *)

NextName(b) == NamesOf(b)[sent[b] + 1]

(* A step of the loop of _UploadStatus; |after| comes after the last name. *)
Uploads(b, s, after) ==
  /\ status' = [status EXCEPT ![NextName(b)][version[b]] = s]
  /\ IF sent[b] + 1 = Len(NamesOf(b))
     THEN sent' = [sent EXCEPT ![b] = 0] /\ pc' = [pc EXCEPT ![b] = after]
     ELSE sent' = [sent EXCEPT ![b] = @ + 1] /\ UNCHANGED pc

Unclaimed_Unchecked(b) == TRUE
Unclaimed(b) == status[NextName(b)][version[b]] = "missing"

SetInFlight(b) ==
  /\ pc[b] = "claim"
  /\ Unclaimed(b)
  /\ Uploads(b, "inflight", "build")
  /\ UNCHANGED <<source, repo, attempt, fleet, clone, version, outcome>>

(* GSContextPreconditionFailed, or Google Storage fails; no other attempt.  *)
(* A claim whose answer is lost is there when GSContext asks again.  The    *)
(* names that were claimed before stay so.                                  *)
ClaimFails(b) ==
  /\ pc[b] = "claim"
  /\ \/ UNCHANGED status
     \/ /\ Unclaimed(b)
        /\ status' = [status EXCEPT ![NextName(b)][version[b]] = "inflight"]
  /\ pc' = [pc EXCEPT ![b] = "error"]
  /\ UNCHANGED <<source, repo, attempt, fleet, clone, version, outcome, sent>>

(* The run may fail although all its boards passed, in what comes after     *)
(* the stages; or be well without having been at one of them.               *)
Build(b) ==
  /\ pc[b] = "build"
  /\ verdict' \in {[verdict EXCEPT ![b] = w] : w \in Verdicts}
  /\ passed' \in {[passed EXCEPT ![b] = ns] : ns \in SUBSET Named(b)}
  /\ tries' = [tries EXCEPT ![b] = 0]
  /\ pc' = [pc EXCEPT ![b] = "fetch"]
  /\ UNCHANGED <<shared, checkout, clone, unprocessed, version, sent>>

-----------------------------------------------------------------------------
(* UpdateStatus *)

GivenUp_Upload == "upload"
GivenUp == "error"

UpdateFails(b) ==
  /\ pc[b] \in {"fetch", "link"}
  /\ IF OutOfTries(b)
     THEN /\ pc' = [pc EXCEPT ![b] = GivenUp]
          /\ clone' = [clone EXCEPT ![b] = Repo]
          /\ UNCHANGED tries
     ELSE /\ pc' = [pc EXCEPT ![b] = "fetch"]
          /\ tries' = [tries EXCEPT ![b] = @ + 1]
          /\ UNCHANGED clone
  /\ UNCHANGED <<shared, checkout, unprocessed, version, outcome, sent>>

(* _SetPassSymlinks and PushSpecChanges *)
Link(n, v, w) == [name |-> n, version |-> v, verdict |-> w]
OwnVerdict(b, n) == IF n \in passed[b] THEN "pass" ELSE "fail"

PushLink(b) ==
  LET pushed == clone[b].links
                  \cup {Link(n, version[b], OwnVerdict(b, n)) : n \in Named(b)}
  IN /\ pc[b] = "link"
     /\ UpToDate(b)
     /\ links' = pushed
     /\ clone' = [clone EXCEPT ![b].links = pushed]
     /\ pc' = [pc EXCEPT ![b] = "upload"]
     /\ UNCHANGED <<source, attempt, fleet, specs, status, version, outcome,
                    sent>>

UploadStatus(b) ==
  /\ pc[b] = "upload"
  /\ Uploads(b, verdict[b], "done")
  /\ UNCHANGED <<source, repo, attempt, fleet, clone, version, outcome>>

(* Google Storage fails after the push, or between two names; UpdateStatus  *)
(* has no retry for it.                                                     *)
UploadFails(b) ==
  /\ pc[b] = "upload"
  /\ pc' = [pc EXCEPT ![b] = "error"]
  /\ UNCHANGED <<shared, attempt, clone, version, outcome, sent>>

-----------------------------------------------------------------------------
Step(b) ==
  \/ Checkout(b) \/ RefreshManifestCheckout(b) \/ LookUp(b)
  \/ KeepVersion(b) \/ IncrementVersion(b) \/ PublishManifest(b)
  \/ AttemptFails(b)
  \/ SetInFlight(b) \/ ClaimFails(b) \/ Build(b)
  \/ UpdateFails(b) \/ PushLink(b) \/ UploadStatus(b) \/ UploadFails(b)

Next == Land \/ \E b \in Builders : Step(b)
Spec == Init /\ [][Next]_vars

-----------------------------------------------------------------------------
SpecMaps == UNION {[vs -> Manifests] : vs \in SUBSET Versions}
Links == [name : Names, version : Versions, verdict : Verdicts]

(* The shared stores and every run keep to their ranges; in particular no  *)
(* run numbers past MaxVersion and none tries more than Retries + 1 times. *)
TypeOK ==
  /\ fleet \in Fleets
  /\ tree \in 0 .. MaxTree /\ versionFile \in Versions
  /\ specs \in SpecMaps /\ links \subseteq Links
  /\ status \in [Names -> [Versions -> Statuses]]
  /\ pc \in [Builders -> Searching \cup Holding \cup Ended]
  /\ tries \in [Builders -> 0 .. Retries]
  /\ checkout \in [Builders -> Manifests]
  /\ clone \in [Builders -> [specs : SpecMaps, links : SUBSET Links]]
  /\ unprocessed \in [Builders -> 0 .. MaxVersion]
  /\ version \in [Builders -> 0 .. MaxVersion]
  /\ verdict \in [Builders -> Verdicts]
  /\ passed \in [Builders -> SUBSET Names]
  /\ sent \in [Builders -> Nat]
  /\ \A b \in Builders : sent[b] < Len(NamesOf(b))

(* Two runs that answer for one name never build the same version: the     *)
(* claim in Google Storage is exclusive although nothing else is, and it    *)
(* is taken one name at a time.                                             *)
ClaimIsExclusive ==
  \A b, c \in Builders :
    /\ b # c /\ Named(b) \cap Named(c) # {}
    /\ pc[b] \in Holding /\ pc[c] \in Holding
    => version[b] # version[c]

(* A final status in Google Storage is the outcome of one run, and the      *)
(* symlink of that name and version, of which there is only one, was pushed *)
(* before by the same run: so the two stores say different things only of a *)
(* name whose own result was not that of the run.  A run that is done has   *)
(* left both for each of its names.                                         *)
LinksOf(n, v) == {w \in Verdicts : Link(n, v, w) \in links}

Reported(b, n, v) ==
  /\ pc[b] \in {"upload", "done", "error"}
  /\ n \in Named(b) /\ version[b] = v
  /\ status[n][v] = verdict[b] /\ LinksOf(n, v) = {OwnVerdict(b, n)}

StatusHasLink ==
  /\ \A n \in Names : \A v \in Versions \ {1} :
       status[n][v] \in Verdicts => \E b \in Builders : Reported(b, n, v)
  /\ \A b \in Builders : pc[b] = "done" =>
       \A n \in Named(b) : Reported(b, n, version[b])

(* A build spec is never withdrawn; what it says stays as it was published, *)
(* and a new one is the highest, unless the run that pushes synced the      *)
(* source before somebody else incremented the version.                     *)
StaleCheckout(b) == checkout[b].version < versionFile
SpecsOnlyGrow ==
  [][/\ DOMAIN specs \subseteq DOMAIN specs'
     /\ specs' # specs =>
          \/ \E b \in Builders : pc[b] = "publish" /\ StaleCheckout(b)
          \/ /\ \A v \in DOMAIN specs : specs'[v] = specs[v]
             /\ \A v \in DOMAIN specs, w \in DOMAIN specs' \ DOMAIN specs :
                  v < w]_vars
=============================================================================
