-------------------------------- MODULE KeyFiles --------------------------------
(***************************************************************************)
(* The two key files of a state directory, the key that signs scopes and   *)
(* the key of the credential vault, while several processes start at once  *)
(* and die at any point.  The repository creates them twice:               *)
(*                                                                         *)
(*  - the package, in src/src/cyberkimi/config.py, truncates and writes    *)
(*    the file it did not find, and takes whatever a file holds;           *)
(*  - the single-file control plane, in src/src/cyberkimi/orchestrator.py, *)
(*    creates the file exclusively, and refuses one that is not a key.     *)
(*                                                                         *)
(* Each start is one element of Starts: a process that is restarted is     *)
(* several.  A key is named by the start that generated it; os.urandom and *)
(* Fernet.generate_key never give two starts the same.                     *)
(***************************************************************************)
EXTENDS Naturals

CONSTANTS
    Starts,     \* starts of a process on one state directory
    Packaged,   \* those of the package, Settings.from_env; the rest are CyberKimi(...)
    Creators,   \* those that may create: create_keys, always so in the single file
    None

ASSUME PackagedAreStarts == Packaged \subseteq Starts
ASSUME SingleFileCreates == Starts \ Packaged \subseteq Creators
ASSUME NotAKey == None \notin Starts /\ "empty" \notin Starts \cup {None}

Generations == {"packaged", "single_file"}

Generation(s) == IF s \in Packaged THEN "packaged" ELSE "single_file"

\* from_env and CyberKimi.__init__ both get the signing key first.
Kinds == {"signing", "vault"}

Steps == {"look", "create", "write", "running", "raised", "dead"}

VARIABLES
    file,   \* the key each file holds: None when there is no file, "empty" before a write
    held,   \* the key each start has in memory, None before it has one
    at      \* the step each start is at and the kind of key it is getting

keyVars == <<file, held, at>>

FileOf(s) == file[Generation(s)]

At(s, step, k) == at[s] = [step |-> step, kind |-> k]

Goto(s, step, k) == at' = [at EXCEPT ![s] = [step |-> step, kind |-> k]]

\* A key is held: the next one is looked for, or the start is complete.
Hold(s, k, key) ==
    /\ held' = [held EXCEPT ![s][k] = key]
    /\ IF k = "signing" THEN Goto(s, "look", "vault") ELSE Goto(s, "running", k)

KeyInit ==
    /\ file = [g \in Generations |-> [k \in Kinds |-> None]]
    /\ held = [s \in Starts |-> [k \in Kinds |-> None]]
    /\ at = [s \in Starts |-> [step |-> "look", kind |-> "signing"]]

\* The length check and the Fernet constructor let only a key through; the package
\* strips what it reads and checks nothing.
Accepts(s, k) == s \in Packaged \/ FileOf(s)[k] # "empty"

\* path.exists(), and the file is read.
Load(s, k) ==
    /\ At(s, "look", k)
    /\ FileOf(s)[k] # None
    /\ Accepts(s, k)
    /\ Hold(s, k, FileOf(s)[k])
    /\ UNCHANGED file

\* What was read is no key, or there is nothing to read and no leave to create it.
Refuse(s, k) ==
    /\ At(s, "look", k)
    /\ IF FileOf(s)[k] # None THEN ~Accepts(s, k) ELSE s \notin Creators
    /\ Goto(s, "raised", k)
    /\ UNCHANGED <<file, held>>

\* Broken variant: a start that may create does not look.
MissingOrNot(s, k) == s \in Creators

Missing(s, k) == s \in Creators /\ FileOf(s)[k] = None

\* There was no file when the start looked; a key is generated.
Miss(s, k) ==
    /\ At(s, "look", k)
    /\ Missing(s, k)
    /\ Goto(s, "create", k)
    /\ UNCHANGED <<file, held>>

\* O_EXCL makes the second creation of a file fail.  Broken variant: opened without.
OpensAlways(s, k) == TRUE

Opens(s, k) == s \in Packaged \/ FileOf(s)[k] = None

\* The file is created, or, by the package, truncated.
Open(s, k) ==
    /\ At(s, "create", k)
    /\ Opens(s, k)
    /\ file' = [file EXCEPT ![Generation(s)][k] = "empty"]
    /\ Goto(s, "write", k)
    /\ UNCHANGED held

\* FileExistsError: another start has created the file since this one looked.
Collide(s, k) ==
    /\ At(s, "create", k)
    /\ ~Opens(s, k)
    /\ Goto(s, "raised", k)
    /\ UNCHANGED <<file, held>>

\* The few bytes of a key arrive in one write, over those of whoever wrote before.
Write(s, k) ==
    /\ At(s, "write", k)
    /\ file' = [file EXCEPT ![Generation(s)][k] = s]
    /\ Hold(s, k, s)

Die(s) ==
    /\ at[s].step \notin {"raised", "dead"}
    /\ Goto(s, "dead", at[s].kind)
    /\ UNCHANGED <<file, held>>

KeyNext ==
    \E s \in Starts :
        \/ \E k \in Kinds :
              \/ Load(s, k)
              \/ Refuse(s, k)
              \/ Miss(s, k)
              \/ Open(s, k)
              \/ Collide(s, k)
              \/ Write(s, k)
        \/ Die(s)

KeySpec == KeyInit /\ [][KeyNext]_keyVars

--------------------------------------------------------------------------------
\* Whatever starts race, die between creating a file and writing it, or come later:
\* every key a single-file start holds is a whole key and the one in the file, so all
\* its starts sign and encrypt with the same keys.
SingleFileKeysAgree ==
    \A s \in Starts \ Packaged, k \in Kinds :
        held[s][k] # None => held[s][k] \in Starts /\ held[s][k] = FileOf(s)[k]

\* A key is settled when the file holds one and no start that has seen no file is still
\* about to write.
Settled(g, k) ==
    /\ file[g][k] \in Starts
    /\ \A s \in Starts :
          (Generation(s) = g /\ at[s].kind = k) => at[s].step \notin {"create", "write"}

\* In the package too, where two first starts may each keep the key they generated, the
\* split ends with the first starts: a settled key is never replaced, whatever starts
\* follow.
SettledKeysStay ==
    [][\A g \in Generations, k \in Kinds :
          Settled(g, k) => Settled(g, k)' /\ file'[g][k] = file[g][k]]_keyVars
================================================================================
