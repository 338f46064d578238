---------------------------- MODULE RepositoryReview ----------------------------
(***************************************************************************)
(* review_repository (src/src/cyberkimi/orchestrator.py): a scan of the    *)
(* repository, then for each secret signal four evidence records, a        *)
(* finding, its attachments and its verification, and at last a report.    *)
(* Every write commits by itself, and nothing of a review that raises or   *)
(* dies is taken back.                                                     *)
(*                                                                         *)
(* It puts together FindingLifecycle, in which a review is one more caller *)
(* of verify_and_finalize, and the two stores behind record_text, of which *)
(* EvidenceStorage shows that they keep the promise of ContentStore.       *)
(* Somebody edits the repository meanwhile, and others move and verify the *)
(* findings they see.                                                      *)
(*                                                                         *)
(* A file has at most one signal.  The engagement and the asset are looked *)
(* up before the first write and not again: only reviews that passed are   *)
(* here.                                                                   *)
(***************************************************************************)
EXTENDS FindingLifecycle, Sequences

CONSTANTS
    Reviews,     \* calls of review_repository; each has a task of its own
    Files,       \* files of the repository with a suffix that is scanned
    Contents,    \* what a file may contain
    SecretsIn,   \* content -> the vault items of the secret-like values in it
    VaultItems,
    Dependencies,  \* whether the repository declares any
    MaxDisturbances  \* bound: edits of the repository and moves of other callers

VARIABLES
    file,        \* the repository: file -> its content, None when it is not there
    disturbances,
    shown,       \* what the artifact and vault directories show
    recorded,    \* table artifacts
    evidence,    \* table evidence
    reviewing,   \* where each review is
    reports      \* report files: "none", "partial" or "complete"

storeVars == <<shown, recorded>>
reviewVars == <<findingVars, file, disturbances, storeVars, evidence, reviewing, reports>>

SignalKinds ==
    <<"source_location", "secret_pattern_match", "vault_confirmation",
      "counterevidence_search">>

\* A record of dependencies only when there are any.
RepositoryKinds ==
    IF Dependencies THEN <<"repository_inventory", "dependency_record">>
    ELSE <<"repository_inventory">>

Kinds ==
    {"repository_inventory", "dependency_record"}
        \cup {SignalKinds[i] : i \in DOMAIN SignalKinds}

Class ==
    [repository_inventory   |-> "metadata",
     dependency_record      |-> "manifest",
     source_location        |-> "source",
     secret_pattern_match   |-> "detector",
     vault_confirmation     |-> "vault",
     counterevidence_search |-> "search"]

\* The text a record is made of: the whole file for a match, its path and line for a
\* location, the same words in every search for counterevidence.
Text(kind, s, c) ==
    <<kind, CASE kind = "source_location" -> s
              [] kind \in {"secret_pattern_match", "vault_confirmation"} -> c
              [] OTHER -> None>>

Texts == {Text(k, s, c) : k \in Kinds, s \in Files \cup {None}, c \in Contents \cup {None}}

\* prepare_for_model looks for secrets in confidential text only.
Candidates(kind, c) == IF kind = "secret_pattern_match" THEN SecretsIn[c] ELSE {}

\* A row of the evidence table.  Task, type and path tell a review's rows apart.
EvidenceRow(r, kind, s, c) ==
    [task |-> r, type |-> kind, path |-> s, class |-> Class[kind], matched |-> FALSE,
     refs |-> Candidates(kind, c), artifact |-> Text(kind, s, c)]

\* What review_repository hands verify_and_finalize for every finding.
ReviewVerification == [verdict |-> "unresolved", claim |-> TRUE, impact |-> FALSE]

ASSUME ReviewsCall == Reviews \subseteq Callers
ASSUME SecretsInContents == SecretsIn \in [Contents -> SUBSET VaultItems]
ASSUME FindingOfEachSignal == Reviews \X Files \subseteq Findings
ASSUME SecretExposureIsType == "secret_exposure" \in FindingTypes
ASSUME VerificationOfReviews == ReviewVerification \in Verifications
ASSUME RecordOfEachText ==
    \A r \in Reviews, s \in Files, c \in Contents :
        /\ EvidenceRow(r, "repository_inventory", None, None) \in Records
        /\ EvidenceRow(r, "dependency_record", None, None) \in Records
        /\ \A i \in DOMAIN SignalKinds : EvidenceRow(r, SignalKinds[i], s, c) \in Records
ASSUME NoneIsNoVerification == None \notin StoredVerification
ASSUME NoneIsNoContent == None \notin Files \cup Contents
ASSUME DependenciesAssumption == Dependencies \in BOOLEAN
ASSUME MaxDisturbancesAssumption == MaxDisturbances \in Nat

Store == INSTANCE ContentStore WITH Names <- Texts \cup VaultItems

--------------------------------------------------------------------------------
\* A review: its step, the kinds of record still to make (or to attach), the signal it
\* is at and the content read for it, the signals to come and the findings to report.
Review(step, plan, signal, content, todo, told) ==
    [step |-> step, plan |-> plan, signal |-> signal, content |-> content,
     todo |-> todo, told |-> told]

Steps ==
    {"scan", "persist", "index", "vault", "insert", "next", "create", "attach",
     "hypothesis", "verify", "verifying", "report", "writing"}

Ended == {"reported", "raised", "dead"}

In(r, step) == reviewing[r].step = step

Goto(r, step) == reviewing' = [reviewing EXCEPT ![r].step = step]

Leave(r, step) == reviewing' = [reviewing EXCEPT ![r] = Review(step, <<>>, None, None, {}, {})]

Kind(r) == Head(reviewing[r].plan)

TextOf(r) == Text(Kind(r), reviewing[r].signal, reviewing[r].content)

CandidatesOf(r) == Candidates(Kind(r), reviewing[r].content)

RowOf(r) == EvidenceRow(r, Kind(r), reviewing[r].signal, reviewing[r].content)

FindingOf(r) == <<r, reviewing[r].signal>>

ReviewInit ==
    /\ FindingInit
    /\ file \in [Files -> Contents]
    /\ disturbances = 0
    /\ Store!Init
    /\ evidence = {}
    /\ reviewing = [r \in Reviews |-> Review("scan", <<>>, None, None, {}, {})]
    /\ reports = [r \in Reviews |-> "none"]

\* list_files, dependencies and secret_signals.  Files are independent of each other: an
\* edit between reading two of them is an edit before or after both.
Scan(r) ==
    /\ In(r, "scan")
    /\ reviewing' = [reviewing EXCEPT ![r] =
           Review("persist", RepositoryKinds, None, None,
                  {s \in Files : file[s] # None /\ SecretsIn[file[s]] # {}}, {})]
    /\ UNCHANGED <<findingVars, file, disturbances, storeVars, evidence, reports>>

\* record_text: ArtifactStore.persist, its file and then its row.
PersistArtifact(r) ==
    /\ In(r, "persist")
    /\ Store!Keep(TextOf(r))
    /\ Goto(r, "index")
    /\ UNCHANGED <<findingVars, file, disturbances, evidence, reports>>

IndexArtifact(r) ==
    /\ In(r, "index")
    /\ Store!Index(TextOf(r))
    /\ Goto(r, "vault")
    /\ UNCHANGED <<findingVars, file, disturbances, evidence, reports>>

\* Broken variant: the first vault item of a text is enough.
UnkeptFirst(r) == IF \E v \in CandidatesOf(r) : shown[v] = "complete" THEN {} ELSE CandidatesOf(r)

\* The secret-like values of the text that the vault does not hold yet.
Unkept(r) == {v \in CandidatesOf(r) : shown[v] # "complete"}

\* record_text: CredentialVault.store, once for each candidate.
StoreCandidate(r) ==
    /\ In(r, "vault")
    /\ \E v \in Unkept(r) : Store!Keep(v)
    /\ UNCHANGED <<findingVars, file, disturbances, evidence, reviewing, reports>>

StoredCandidates(r) ==
    /\ In(r, "vault")
    /\ Unkept(r) = {}
    /\ Goto(r, "insert")
    /\ UNCHANGED <<findingVars, file, disturbances, storeVars, evidence, reports>>

\* record_text: the evidence row; then the next record, or the next thing to do.
InsertEvidence(r) ==
    /\ In(r, "insert")
    /\ evidence' = evidence \cup {RowOf(r)}
    /\ LET rest == Tail(reviewing[r].plan)
       IN reviewing' = [reviewing EXCEPT
              ![r].plan = rest,
              ![r].step = IF rest # <<>> THEN "persist"
                          ELSE IF reviewing[r].signal = None THEN "next"
                          ELSE "create"]
    /\ UNCHANGED <<findingVars, file, disturbances, storeVars, reports>>

\* Broken variant: a file that is gone is passed over, but stays on the list.
PassOver(r) == UNCHANGED reviewing

\* RepositoryBoundary.read_text raises.
Unreadable(r) == Leave(r, "raised")

\* The next signal: its file is read again, as it is now.
TakeSignal(r) ==
    /\ In(r, "next")
    /\ \E s \in reviewing[r].todo :
          IF file[s] = None
          THEN Unreadable(r)
          ELSE reviewing' = [reviewing EXCEPT ![r] =
                   Review("persist", SignalKinds, s, file[s], reviewing[r].todo \ {s},
                          reviewing[r].told)]
    /\ UNCHANGED <<findingVars, file, disturbances, storeVars, evidence, reports>>

Create(r) ==
    /\ In(r, "create")
    /\ CreateSignal(FindingOf(r), "secret_exposure")
    /\ reviewing' = [reviewing EXCEPT ![r].step = "attach", ![r].plan = SignalKinds]
    /\ UNCHANGED <<file, disturbances, storeVars, evidence, reports>>

\* Broken variant: the last record is not attached.
AttachedButLast(plan) == IF Len(plan) = 2 THEN <<>> ELSE Tail(plan)

AttachedNext(plan) == Tail(plan)

Attach(r) ==
    /\ In(r, "attach")
    /\ AttachEvidence(FindingOf(r), RowOf(r))
    /\ LET rest == AttachedNext(reviewing[r].plan)
       IN reviewing' = [reviewing EXCEPT
              ![r].plan = rest,
              ![r].step = IF rest = <<>> THEN "hypothesis" ELSE "attach"]
    /\ UNCHANGED <<file, disturbances, storeVars, evidence, reports>>

\* transition raises when somebody has moved the finding on.
Suppose(r) ==
    /\ In(r, "hypothesis")
    /\ \/ /\ Transition(FindingOf(r), "hypothesis")
          /\ Goto(r, "verify")
       \/ /\ "hypothesis" \notin AllowedTransitions[findings[FindingOf(r)].state]
          /\ Leave(r, "raised")
          /\ UNCHANGED findingVars
    /\ UNCHANGED <<file, disturbances, storeVars, evidence, reports>>

Verify(r) ==
    /\ In(r, "verify")
    /\ BeginVerify(r, FindingOf(r), ReviewVerification)
    /\ Goto(r, "verifying")
    /\ UNCHANGED <<file, disturbances, storeVars, evidence, reports>>

Finalize(r) ==
    /\ In(r, "verifying")
    /\ \/ /\ Decide(r)
          /\ UNCHANGED reviewing
       \/ /\ WriteVerdict(r)
          /\ reviewing' = [reviewing EXCEPT ![r] =
                 Review("next", <<>>, None, None, reviewing[r].todo,
                        reviewing[r].told \cup {FindingOf(r)})]
    /\ UNCHANGED <<file, disturbances, storeVars, evidence, reports>>

\* write_text truncates, then writes.
OpenReport(r) ==
    /\ In(r, "next")
    /\ reviewing[r].todo = {}
    /\ reports' = [reports EXCEPT ![r] = "partial"]
    /\ Goto(r, "writing")
    /\ UNCHANGED <<findingVars, file, disturbances, storeVars, evidence>>

WriteReport(r) ==
    /\ In(r, "writing")
    /\ reports' = [reports EXCEPT ![r] = "complete"]
    /\ Goto(r, "reported")
    /\ UNCHANGED <<findingVars, file, disturbances, storeVars, evidence>>

\* The process dies, or a read or a write raises: in the scan, that of a file which was
\* listed and is gone.
Die(r) ==
    /\ reviewing[r].step \in Steps
    /\ IF verifying[r] = None THEN UNCHANGED findingVars ELSE GiveUp(r)
    /\ Leave(r, "dead")
    /\ UNCHANGED <<file, disturbances, storeVars, evidence, reports>>

ReviewStep(r) ==
    \/ Scan(r)
    \/ PersistArtifact(r)
    \/ IndexArtifact(r)
    \/ StoreCandidate(r)
    \/ StoredCandidates(r)
    \/ InsertEvidence(r)
    \/ TakeSignal(r)
    \/ Create(r)
    \/ Attach(r)
    \/ Suppose(r)
    \/ Verify(r)
    \/ Finalize(r)
    \/ OpenReport(r)
    \/ WriteReport(r)

--------------------------------------------------------------------------------
Disturb ==
    /\ disturbances < MaxDisturbances
    /\ disturbances' = disturbances + 1

\* Somebody edits the repository.
Edit ==
    /\ Disturb
    /\ \E s \in Files, c \in Contents \cup {None} : file' = [file EXCEPT ![s] = c]
    /\ UNCHANGED <<findingVars, storeVars, evidence, reviewing, reports>>

\* Another caller of the lifecycle moves a finding or verifies it.
OtherCaller ==
    /\ \/ /\ Disturb
          /\ \E f \in Findings :
                \/ \E s \in States : Transition(f, s)
                \/ \E c \in Callers \ Reviews, v \in Verifications : BeginVerify(c, f, v)
       \/ /\ \E c \in Callers \ Reviews : Decide(c) \/ WriteVerdict(c) \/ GiveUp(c)
          /\ UNCHANGED disturbances
    /\ UNCHANGED <<file, storeVars, evidence, reviewing, reports>>

ReviewNext ==
    \/ \E r \in Reviews : ReviewStep(r) \/ Die(r)
    \/ Edit
    \/ OtherCaller

ReviewSpec == ReviewInit /\ [][ReviewNext]_reviewVars

\* A review runs to its end unless it dies; nothing is assumed of anybody else.
FairReviewSpec == ReviewSpec /\ \A r \in Reviews : WF_reviewVars(ReviewStep(r))

--------------------------------------------------------------------------------
\* Every evidence row can be followed to what it was made of, however many reviews died
\* between two writes: its artifact is recorded and readable, and the vault holds every
\* secret that was taken out of it.
EvidenceBacked ==
    \A e \in evidence :
        /\ e.artifact \in recorded
        /\ shown[e.artifact] = "complete"
        /\ \A v \in e.refs : shown[v] = "complete"

\* The evidence attached to the finding of a signal is all there and of the finding's
\* own task.
FullyAttached(f) ==
    /\ EvidenceFor(f) \subseteq evidence
    /\ \A i \in DOMAIN SignalKinds :
          \E e \in EvidenceFor(f) : e.type = SignalKinds[i] /\ e.task = f[1]

\* A finding that a review tells of, in its report or on its way to it, rests on all four
\* records of its own task and has been verified, whatever other callers did to it
\* meanwhile and although the file may have changed since the scan.
ReportsRestOnFindings ==
    \A r \in Reviews : \A f \in reviewing[r].told :
        /\ findings[f] # None
        /\ findings[f].verification # None
        /\ findings[f].state \notin {"signal", "hypothesis"}
        /\ FullyAttached(f)

\* A verification on record that the vault cross-check agreed with still has its secrets in
\* the vault: the check read them from an evidence row, not from the vault.
CheckedSecretsKept ==
    \A f \in Findings :
        (findings[f] # None /\ findings[f].type = "secret_exposure"
            /\ findings[f].verification # None) =>
        (findings[f].verification.oracle =>
            \E e \in EvidenceFor(f) :
                e.refs # {} /\ \A v \in e.refs : shown[v] = "complete")

\* A review ends with a report, or raises or dies: neither an edit nor another caller
\* keeps it going or holds it up.
ReviewsEnd == \A r \in Reviews : <>(reviewing[r].step \in Ended)
================================================================================
