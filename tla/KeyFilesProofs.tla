----------------------------- MODULE KeyFilesProofs -----------------------------
(***************************************************************************)
(* Proofs about KeyFiles, for any number of starts of either generation.   *)
(*                                                                         *)
(* SingleFileKeysAgree is not inductive: nothing in it says that the file a *)
(* start is about to write is not one another start has read already.      *)
(* OneWriter adds that: whoever is about to write created the file, and it *)
(* is still empty, so nobody has got past it.                              *)
(***************************************************************************)
EXTENDS KeyFiles, TLAPS

Content == Starts \cup {None, "empty"}

KeyTypeOK ==
    /\ file \in [Generations -> [Kinds -> Content]]
    /\ held \in [Starts -> [Kinds -> Content]]
    /\ at \in [Starts -> [step : Steps, kind : Kinds]]

OneWriter ==
    \A s \in Starts \ Packaged, k \in Kinds :
        At(s, "write", k) =>
            /\ FileOf(s)[k] = "empty"
            /\ \A t \in Starts \ Packaged : At(t, "write", k) => t = s

KeyInv == KeyTypeOK /\ OneWriter /\ SingleFileKeysAgree

\* What a step of one start changes: that start, and at most one file of its generation.
LEMMA StepType ==
    ASSUME KeyTypeOK, [KeyNext]_keyVars
    PROVE  KeyTypeOK'
<1>. USE DEF KeyTypeOK, Content, Kinds, Generations, Generation
<1>1. CASE UNCHANGED keyVars
  BY <1>1 DEF keyVars
<1>2. ASSUME NEW s \in Starts, NEW k \in Kinds, Load(s, k)  PROVE KeyTypeOK'
  BY <1>2 DEF Load, Hold, Goto, FileOf, Steps
<1>3. ASSUME NEW s \in Starts, NEW k \in Kinds, Refuse(s, k)  PROVE KeyTypeOK'
  BY <1>3 DEF Refuse, Goto, Steps
<1>4. ASSUME NEW s \in Starts, NEW k \in Kinds, Miss(s, k)  PROVE KeyTypeOK'
  BY <1>4 DEF Miss, Goto, Steps
<1>5. ASSUME NEW s \in Starts, NEW k \in Kinds, Open(s, k)  PROVE KeyTypeOK'
  BY <1>5 DEF Open, Goto, Steps
<1>6. ASSUME NEW s \in Starts, NEW k \in Kinds, Collide(s, k)  PROVE KeyTypeOK'
  BY <1>6 DEF Collide, Goto, Steps
<1>7. ASSUME NEW s \in Starts, NEW k \in Kinds, Write(s, k)  PROVE KeyTypeOK'
  BY <1>7 DEF Write, Hold, Goto, Steps
<1>8. ASSUME NEW s \in Starts, Die(s)  PROVE KeyTypeOK'
  BY <1>8 DEF Die, Goto, Steps
<1>. QED
  BY <1>1, <1>2, <1>3, <1>4, <1>5, <1>6, <1>7, <1>8 DEF KeyNext

\* Whoever writes a single file's key has created the file, alone.
LEMMA WriterStep ==
    ASSUME KeyTypeOK, OneWriter, [KeyNext]_keyVars
    PROVE  OneWriter'
<1>. USE DEF KeyTypeOK, OneWriter, At, FileOf, Generation
<1>1. CASE UNCHANGED keyVars
  BY <1>1 DEF keyVars
<1>2. ASSUME NEW s \in Starts, NEW k \in Kinds, Load(s, k)  PROVE OneWriter'
  <2>1. \A t \in Starts, i \in Kinds : At(t, "write", i)' => At(t, "write", i)
    BY <1>2 DEF Load, Hold, Goto
  <2>. QED
    BY <1>2, <2>1 DEF Load
<1>3. ASSUME NEW s \in Starts, NEW k \in Kinds, Refuse(s, k)  PROVE OneWriter'
  BY <1>3 DEF Refuse, Goto
<1>4. ASSUME NEW s \in Starts, NEW k \in Kinds, Miss(s, k)  PROVE OneWriter'
  BY <1>4 DEF Miss, Goto
<1>5. ASSUME NEW s \in Starts, NEW k \in Kinds, Open(s, k)  PROVE OneWriter'
  BY <1>5, NotAKey DEF Open, Opens, Goto, Generations
<1>6. ASSUME NEW s \in Starts, NEW k \in Kinds, Collide(s, k)  PROVE OneWriter'
  BY <1>6 DEF Collide, Goto
<1>7. ASSUME NEW s \in Starts, NEW k \in Kinds, Write(s, k)  PROVE OneWriter'
  <2>1. \A t \in Starts, i \in Kinds : At(t, "write", i)' => t # s /\ At(t, "write", i)
    BY <1>7 DEF Write, Hold, Goto
  <2>2. \A t \in Starts \ Packaged, i \in Kinds :
            At(t, "write", i)' => file'["single_file"][i] = file["single_file"][i]
    BY <1>7, <2>1 DEF Write, Generations
  <2>. QED
    BY <2>1, <2>2
<1>8. ASSUME NEW s \in Starts, Die(s)  PROVE OneWriter'
  BY <1>8 DEF Die, Goto
<1>. QED
  BY <1>1, <1>2, <1>3, <1>4, <1>5, <1>6, <1>7, <1>8 DEF KeyNext

\* A file that is created or written is one no single-file start has read.
LEMMA AgreementStep ==
    ASSUME KeyInv, [KeyNext]_keyVars
    PROVE  SingleFileKeysAgree'
<1>. USE DEF KeyInv, KeyTypeOK, SingleFileKeysAgree, FileOf, Generation, Content
<1>1. CASE UNCHANGED keyVars
  BY <1>1 DEF keyVars
<1>2. ASSUME NEW s \in Starts, NEW k \in Kinds, Load(s, k)  PROVE SingleFileKeysAgree'
  BY <1>2 DEF Load, Accepts, Hold, Generations
<1>3. ASSUME NEW s \in Starts, NEW k \in Kinds, Open(s, k)  PROVE SingleFileKeysAgree'
  BY <1>3, NotAKey DEF Open, Opens, Generations
<1>4. ASSUME NEW s \in Starts, NEW k \in Kinds, Write(s, k)  PROVE SingleFileKeysAgree'
  <2>1. CASE s \in Packaged
    BY <1>4, <2>1 DEF Write, Hold, Generations
  <2>2. CASE s \notin Packaged
    <3>1. file["single_file"][k] = "empty"
      BY <1>4, <2>2 DEF Write, OneWriter
    <3>2. \A t \in Starts \ Packaged : held[t][k] = None
      BY <3>1, NotAKey
    <3>. QED
      BY <1>4, <2>2, <3>2 DEF Write, Hold, Generations
  <2>. QED
    BY <2>1, <2>2
<1>5. ASSUME UNCHANGED <<file, held>>  PROVE SingleFileKeysAgree'
  BY <1>5
<1>. QED
  BY <1>1, <1>2, <1>3, <1>4, <1>5 DEF KeyNext, Refuse, Miss, Collide, Die

LEMMA KeyInvariant == KeySpec => []KeyInv
<1>1. KeyInit => KeyInv
  BY NotAKey DEF KeyInit, KeyInv, KeyTypeOK, OneWriter, SingleFileKeysAgree, Content, At,
                 FileOf, Generation, Generations, Kinds, Steps
<1>2. KeyInv /\ [KeyNext]_keyVars => KeyInv'
  BY StepType, WriterStep, AgreementStep DEF KeyInv
<1>. QED
  BY <1>1, <1>2, PTL DEF KeySpec

\* However many starts race, die or come later, and whatever the package's do beside
\* them, the single file's starts hold whole keys, the ones in the files
\* (orchestrator.py:74-101).
THEOREM SingleFileKeysAlwaysAgree == KeySpec => []SingleFileKeysAgree
<1>1. KeyInv => SingleFileKeysAgree
  BY DEF KeyInv
<1>. QED
  BY <1>1, KeyInvariant, PTL

\* In both generations a key that is settled stays, whatever starts follow
\* (config.py:71-86, orchestrator.py:74-101).
THEOREM SettledKeysAlwaysStay == KeySpec => SettledKeysStay
<1>1. KeyInv /\ [KeyNext]_keyVars =>
          [\A g \in Generations, k \in Kinds :
              Settled(g, k) => Settled(g, k)' /\ file'[g][k] = file[g][k]]_keyVars
  <2>. SUFFICES ASSUME KeyInv, KeyNext, NEW g \in Generations, NEW k \in Kinds, Settled(g, k)
                PROVE  Settled(g, k)' /\ file'[g][k] = file[g][k]
    OBVIOUS
  <2>. USE DEF KeyInv, KeyTypeOK, Settled
  <2>1. PICK s \in Starts : Die(s) \/ \E i \in Kinds : \/ Load(s, i) \/ Refuse(s, i)
                              \/ Miss(s, i) \/ Open(s, i) \/ Collide(s, i) \/ Write(s, i)
    BY DEF KeyNext
  <2>2. CASE Die(s)
    BY <2>2 DEF Die, Goto
  <2>3. ASSUME NEW i \in Kinds, Load(s, i)
        PROVE  Settled(g, k)' /\ file'[g][k] = file[g][k]
    BY <2>3 DEF Load, Hold, Goto
  <2>4. ASSUME NEW i \in Kinds, Refuse(s, i) \/ Collide(s, i)
        PROVE  Settled(g, k)' /\ file'[g][k] = file[g][k]
    BY <2>4 DEF Refuse, Collide, Goto
  <2>5. ASSUME NEW i \in Kinds, Miss(s, i)
        PROVE  Settled(g, k)' /\ file'[g][k] = file[g][k]
    BY <2>5, NotAKey DEF Miss, Missing, FileOf, Goto
  <2>6. ASSUME NEW i \in Kinds, Open(s, i)
        PROVE  Settled(g, k)' /\ file'[g][k] = file[g][k]
    <3>1. ~(Generation(s) = g /\ i = k)
      BY <2>6 DEF Open, At
    <3>. QED
      BY <2>6, <3>1 DEF Open, Goto, Generation, Generations
  <2>7. ASSUME NEW i \in Kinds, Write(s, i)
        PROVE  Settled(g, k)' /\ file'[g][k] = file[g][k]
    <3>1. ~(Generation(s) = g /\ i = k)
      BY <2>7 DEF Write, At
    <3>2. file'[g][k] = file[g][k]
      BY <2>7, <3>1 DEF Write, Generation, Generations
    <3>3. \A t \in Starts : at'[t].kind = k /\ at'[t].step \in {"create", "write"} => at'[t] = at[t]
      BY <2>7 DEF Write, Hold, Goto
    <3>. QED
      BY <3>2, <3>3
  <2>. QED
    BY <2>1, <2>2, <2>3, <2>4, <2>5, <2>6, <2>7
<1>. QED
  BY <1>1, KeyInvariant, PTL DEF KeySpec, SettledKeysStay
================================================================================
