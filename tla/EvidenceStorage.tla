---------------------------- MODULE EvidenceStorage ----------------------------
(***************************************************************************)
(* How raw artifacts and vault items reach the disk: ArtifactStore.persist *)
(* and CredentialVault.store.  The repository has them twice, with         *)
(* directories and databases of their own:                                 *)
(*                                                                         *)
(*  - in the package src/src/cyberkimi/evidence (store.py and vault.py)    *)
(*    the temporary file of a digest has one name for everybody, and the   *)
(*    vault writes its file inside its transaction;                        *)
(*  - in the single file src/src/cyberkimi/evidence.py every call has a    *)
(*    temporary file of its own, removed when the call raises, and the     *)
(*    vault has no table.                                                  *)
(*                                                                         *)
(* Each call of one of the two methods is one element of Calls, so a       *)
(* process that stores twice, or is restarted, is several calls.  A file   *)
(* (an inode) is named by the call that created it.  Opening for writing   *)
(* truncates; the bytes then arrive in one step.                           *)
(***************************************************************************)
EXTENDS Naturals, FiniteSets

CONSTANTS
    Calls,     \* calls of persist and store
    Digests,   \* contents, named by their digest
    Secrets,   \* vault items, named by their digest
    Packaged,  \* the names the package's stores are given, the rest are the single file's
    None

ASSUME PackagedAreNames == Packaged \subseteq Digests \cup Secrets
ASSUME NamesDisjoint == Digests \cap Secrets = {}
ASSUME NoneIsNoName == None \notin Calls \cup Digests \cup Secrets
ASSUME TempNamesAreNew == Calls \cap (Digests \cup Secrets) = {}

Names == Digests \cup Secrets

\* The names temporary files have: the digest's in the package, the call's own (a uuid)
\* in the single file.
TempNames == Names \cup Calls

VARIABLES
    contents,      \* file -> "none", "partial" (truncated or half written), "complete"
    temp,          \* temporary name -> the file it links to
    final,         \* digest -> the file it links to
    artifactRows,  \* table artifacts
    vaultRows,     \* table vault_items; the single file's vault has none
    lock,          \* the call inside a transaction of the package that does file I/O
    at             \* where each call is, what it stores and the file it has open

storageVars == <<contents, temp, final, artifactRows, vaultRows, lock, at>>

Steps == {"idle", "open", "opened", "written", "record", "returned", "raised", "dead"}

Place(step, name, file) == [step |-> step, name |-> name, file |-> file]

Goto(c, step, file) == at' = [at EXCEPT ![c] = Place(step, at[c].name, file)]

\* Broken variant: the single file names temporary files like the package.
TempOfDigest(c) == at[c].name

TempOf(c) == IF at[c].name \in Packaged THEN at[c].name ELSE c

\* Broken variant: a temporary file is taken for the stored one.
StoredOrTemporary(n) == final[n] # None \/ temp[n] # None

\* destination.exists()
Stored(n) == final[n] # None

\* Broken variant: nobody waits.
UnlockedAlways(n) == TRUE

\* BEGIN IMMEDIATE succeeds.  The single file's transactions do no file I/O: nobody is
\* seen waiting for one.
Unlocked(n) == n \in Packaged => lock = None

--------------------------------------------------------------------------------
StorageInit ==
    /\ contents = [c \in Calls |-> "none"]
    /\ temp = [n \in TempNames |-> None]
    /\ final = [n \in Names |-> None]
    /\ artifactRows = {}
    /\ vaultRows = {}
    /\ lock = None
    /\ at = [c \in Calls |-> Place("idle", None, None)]

\* ArtifactStore.persist: a file that exists is not written again.
Persist(c, d) ==
    /\ at[c].step = "idle"
    /\ at' = [at EXCEPT ![c] = Place(IF Stored(d) THEN "record" ELSE "open", d, None)]
    /\ UNCHANGED <<contents, temp, final, artifactRows, vaultRows, lock>>

\* CredentialVault.store: in the package, BEGIN IMMEDIATE and a look at the table;
\* in the single file, a look at the directory.
Store(c, s) ==
    /\ at[c].step = "idle"
    /\ Unlocked(s)
    /\ \/ /\ s \in vaultRows
          /\ at' = [at EXCEPT ![c] = Place("returned", s, None)]
          /\ UNCHANGED lock
       \/ /\ s \in Packaged \ vaultRows
          /\ at' = [at EXCEPT ![c] = Place("open", s, None)]
          /\ lock' = c
       \/ /\ s \notin Packaged
          /\ at' = [at EXCEPT ![c] =
                       Place(IF Stored(s) THEN "returned" ELSE "open", s, None)]
          /\ UNCHANGED lock
    /\ UNCHANGED <<contents, temp, final, artifactRows, vaultRows>>

\* The temporary file is opened: created, or truncated if its name exists.
OpenTemp(c) ==
    /\ at[c].step = "open"
    /\ LET f == IF temp[TempOf(c)] = None THEN c ELSE temp[TempOf(c)]
       IN /\ contents' = [contents EXCEPT ![f] = "partial"]
          /\ temp' = [temp EXCEPT ![TempOf(c)] = f]
          /\ Goto(c, "opened", f)
    /\ UNCHANGED <<final, artifactRows, vaultRows, lock>>

WriteTemp(c) ==
    /\ at[c].step = "opened"
    /\ contents' = [contents EXCEPT ![at[c].file] = "complete"]
    /\ Goto(c, "written", None)
    /\ UNCHANGED <<temp, final, artifactRows, vaultRows, lock>>

\* chmod and replace go by name: they move whatever file has the name now, and raise
\* when somebody else has moved it already.
Replace(c) ==
    /\ at[c].step = "written"
    /\ temp[TempOf(c)] # None
    /\ final' = [final EXCEPT ![at[c].name] = temp[TempOf(c)]]
    /\ temp' = [temp EXCEPT ![TempOf(c)] = None]
    /\ Goto(c, IF at[c].name \in Secrets \ Packaged THEN "returned"
               ELSE "record", None)
    /\ UNCHANGED <<contents, artifactRows, vaultRows, lock>>

\* The row, unless there is one: a transaction of its own for an artifact, the end of
\* the one it is in for a vault item.
RecordArtifact(c) ==
    /\ at[c].step = "record"
    /\ at[c].name \in Digests
    /\ Unlocked(at[c].name)
    /\ artifactRows' = artifactRows \cup {at[c].name}
    /\ Goto(c, "returned", None)
    /\ UNCHANGED <<contents, temp, final, vaultRows, lock>>

RecordItem(c) ==
    /\ at[c].step = "record"
    /\ at[c].name \in Secrets
    /\ vaultRows' = vaultRows \cup {at[c].name}
    /\ lock' = None
    /\ Goto(c, "returned", None)
    /\ UNCHANGED <<contents, temp, final, artifactRows>>

Running == {c \in Calls : at[c].step \in {"open", "opened", "written", "record"}}

\* Broken variant: the lock of a call that ended stays taken.
ReleasedNever(c) == lock

Released(c) == IF lock = c THEN None ELSE lock

\* An exception, for example a name that is gone, a full disk or a database that is
\* locked too long.  The single file removes its temporary file.
Raise(c) ==
    /\ c \in Running
    /\ temp' = IF at[c].name \in Packaged THEN temp ELSE [temp EXCEPT ![TempOf(c)] = None]
    /\ lock' = Released(c)
    /\ Goto(c, "raised", at[c].file)
    /\ UNCHANGED <<contents, final, artifactRows, vaultRows>>

\* The process dies: its transaction is rolled back, its files stay.
Die(c) ==
    /\ c \in Running
    /\ lock' = Released(c)
    /\ Goto(c, "dead", at[c].file)
    /\ UNCHANGED <<contents, temp, final, artifactRows, vaultRows>>

\* The next step of a call that nothing outside it makes fail; when its temporary
\* file has been moved by another call, that step is the exception.
Proceed(c) ==
    \/ OpenTemp(c)
    \/ WriteTemp(c)
    \/ Replace(c)
    \/ RecordArtifact(c)
    \/ RecordItem(c)
    \/ at[c].step = "written" /\ temp[TempOf(c)] = None /\ Raise(c)

StorageNext ==
    \E c \in Calls :
        \/ \E d \in Digests : Persist(c, d)
        \/ \E s \in Secrets : Store(c, s)
        \/ Proceed(c)
        \/ Raise(c)
        \/ Die(c)

StorageSpec == StorageInit /\ [][StorageNext]_storageVars

\* A process that is not dead takes its next step.  No other exception is assumed to
\* happen, and nothing is assumed of callers.
FairStorageSpec == StorageSpec /\ \A c \in Calls : WF_storageVars(Proceed(c))

--------------------------------------------------------------------------------
\* An artifact row is never dangling, and a final name that is not complete has a call
\* to answer for it: one that truncated the file and is about to write it, or raised
\* or died before it did.  Otherwise what everybody reads is whole, however calls
\* share the temporary name.
TruncationExplained ==
    /\ \A d \in artifactRows : final[d] # None
    /\ \A n \in Names :
          (final[n] # None /\ contents[final[n]] # "complete") =>
              \E c \in Calls : at[c].file = final[n] /\ at[c].step \in {"opened", "raised", "dead"}

\* A vault item that has a row has a whole file, whatever calls die or raise: the file
\* is written before the row, under the database lock, and never again once there is
\* a row.
VaultRowsReadable ==
    \A s \in vaultRows : final[s] # None /\ contents[final[s]] = "complete"

\* What a reader of the single file's stores sees of them.
SingleFileNames == Names \ Packaged

Shown == [n \in SingleFileNames |-> IF Stored(n) THEN contents[final[n]] ELSE "none"]

SingleFileStore == INSTANCE ContentStore
    WITH Names <- SingleFileNames, shown <- Shown, recorded <- artifactRows \ Packaged

\* The single file's stores keep the promise of ContentStore, whatever calls share,
\* raise or die: a final name, of an artifact or of a vault item, never shows a part of
\* its content and never goes away, and an artifact is on the disk before it has a row.
ImplementsContentStore == SingleFileStore!Spec

\* A call that has started ends, although it may find its temporary file gone, or wait
\* for the database lock that another call holds during file I/O: that call may raise
\* or die, and the lock is free again.
CallsEnd ==
    \A c \in Calls :
        c \in Running ~> at[c].step \in {"returned", "raised", "dead"}
================================================================================
