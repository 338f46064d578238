------------------------- MODULE EvidenceStorageProofs -------------------------
(***************************************************************************)
(* Theorems about EvidenceStorage, for any number of calls of both         *)
(* generations, digests and vault items.                                   *)
(*                                                                         *)
(* The properties are about what final names show; what makes them true is *)
(* who can still write the file behind a name.  A file never changes the   *)
(* name it was created for (FilesNamed), in the package one call at a time *)
(* is inside the transaction of a vault item (ItemsHeld), and in the       *)
(* single file nobody but its creator ever opens a file (OwnFiles).        *)
(***************************************************************************)
EXTENDS EvidenceStorage, TLAPS

StorageTypeOK ==
    /\ contents \in [Calls -> {"none", "partial", "complete"}]
    /\ temp \in [TempNames -> Calls \cup {None}]
    /\ final \in [Names -> Calls \cup {None}]
    /\ artifactRows \subseteq Digests
    /\ vaultRows \subseteq Secrets
    /\ lock \in Calls \cup {None}
    /\ at \in [Calls -> [step : Steps, name : Names \cup {None}, file : Calls \cup {None}]]
    /\ \A c \in Calls :
          /\ at[c].step # "idle" => at[c].name \in Names
          /\ at[c].step = "opened" => at[c].file \in Calls
          /\ at[c].step = "record" /\ at[c].name \in Secrets => at[c].name \in Packaged

\* The file of call f exists; its name is n, because f opened it for n.
CreatedFor(f, n) == contents[f] # "none" /\ at[f].name = n

FilesNamed ==
    /\ \A c \in Calls : contents[c] # "none" => at[c].step \notin {"idle", "open"}
    /\ \A n \in Names : final[n] # None => CreatedFor(final[n], n)
    /\ \A x \in TempNames : temp[x] # None => contents[temp[x]] # "none" /\ TempOf(temp[x]) = x
    /\ \A c \in Calls : at[c].file # None => CreatedFor(at[c].file, at[c].name)

\* A file that is not whole has somebody to answer for it.
Truncated(f) ==
    \E c \in Calls : at[c].file = f /\ at[c].step \in {"opened", "raised", "dead"}

PartsExplained == \A f \in Calls : contents[f] = "partial" => Truncated(f)

RowsBacked ==
    /\ \A c \in Calls : at[c].step = "record" => final[at[c].name] # None
    /\ \A d \in artifactRows : final[d] # None

Whole(f) == f # None /\ contents[f] = "complete"

\* A call of the package's vault works under the database lock on a temporary file it
\* has for itself, and on an item that has no row.
ItemStands(c) ==
    /\ lock = c
    /\ at[c].name \notin vaultRows
    /\ at[c].step = "opened" => temp[at[c].name] = at[c].file
    /\ at[c].step = "written" => Whole(temp[at[c].name])
    /\ at[c].step = "record" => Whole(final[at[c].name])

ItemsHeld ==
    /\ \A c \in Running : at[c].name \in Secrets \cap Packaged => ItemStands(c)
    /\ \A s \in vaultRows : s \in Packaged /\ Whole(final[s])

\* A call of the single file has a temporary file of its own, and only whole files that
\* are never opened again get a final name.
OwnFile(c) ==
    /\ at[c].file \in {c, None}
    /\ at[c].step \in {"opened", "written"} => temp[c] = c
    /\ at[c].step = "written" => Whole(c)

OwnFiles ==
    /\ \A c \in Calls : at[c].name \in SingleFileNames => OwnFile(c)
    /\ \A n \in SingleFileNames :
          final[n] # None =>
              Whole(final[n]) /\ at[final[n]].step \notin {"opened", "written"}

StorageInv ==
    /\ StorageTypeOK
    /\ FilesNamed
    /\ PartsExplained
    /\ RowsBacked
    /\ ItemsHeld
    /\ OwnFiles

--------------------------------------------------------------------------------
\* Every step keeps the tables, links and calls of their types.
LEMMA StorageTypeStep ==
    ASSUME StorageTypeOK, [StorageNext]_storageVars
    PROVE  StorageTypeOK'
<1>. USE NamesDisjoint, NoneIsNoName, TempNamesAreNew, PackagedAreNames
        DEF Names, TempNames, StorageTypeOK, Steps, Place
<1>1. ASSUME NEW c \in Calls, NEW d \in Digests, Persist(c, d)  PROVE StorageTypeOK'
  BY <1>1 DEF Persist, Stored
<1>2. ASSUME NEW c \in Calls, NEW s \in Secrets, Store(c, s)  PROVE StorageTypeOK'
  BY <1>2 DEF Store, Stored, Unlocked
<1>3. ASSUME NEW c \in Calls, OpenTemp(c)  PROVE StorageTypeOK'
  BY <1>3 DEF OpenTemp, Goto, TempOf
<1>4. ASSUME NEW c \in Calls, WriteTemp(c)  PROVE StorageTypeOK'
  BY <1>4 DEF WriteTemp, Goto
<1>5. ASSUME NEW c \in Calls, Replace(c)  PROVE StorageTypeOK'
  BY <1>5 DEF Replace, Goto, TempOf
<1>6. ASSUME NEW c \in Calls, RecordArtifact(c)  PROVE StorageTypeOK'
  BY <1>6 DEF RecordArtifact, Goto
<1>7. ASSUME NEW c \in Calls, RecordItem(c)  PROVE StorageTypeOK'
  BY <1>7 DEF RecordItem, Goto
<1>8. ASSUME NEW c \in Calls, Raise(c)  PROVE StorageTypeOK'
  BY <1>8 DEF Raise, Goto, Running, Released, TempOf
<1>9. ASSUME NEW c \in Calls, Die(c)  PROVE StorageTypeOK'
  BY <1>9 DEF Die, Goto, Running, Released
<1>10. CASE UNCHANGED storageVars
  BY <1>10 DEF storageVars
<1>. QED
  BY <1>1, <1>2, <1>3, <1>4, <1>5, <1>6, <1>7, <1>8, <1>9, <1>10
     DEF StorageNext, Proceed

\* A file is created by OpenTemp, and every link it gets afterwards is of its own name.
LEMMA NamedStep ==
    ASSUME StorageTypeOK, StorageTypeOK', FilesNamed, [StorageNext]_storageVars
    PROVE  FilesNamed'
<1>. USE NamesDisjoint, NoneIsNoName, TempNamesAreNew, PackagedAreNames
        DEF Names, TempNames, StorageTypeOK, Steps, Place, FilesNamed, CreatedFor, TempOf
<1>1. ASSUME NEW c \in Calls, NEW d \in Digests, Persist(c, d)  PROVE FilesNamed'
  BY <1>1 DEF Persist, Stored
<1>2. ASSUME NEW c \in Calls, NEW s \in Secrets, Store(c, s)  PROVE FilesNamed'
  BY <1>2 DEF Store, Stored, Unlocked
<1>3. ASSUME NEW c \in Calls, OpenTemp(c)  PROVE FilesNamed'
  <2>1. PICK x : x = TempOf(c) /\ x \in TempNames
    BY <1>3 DEF OpenTemp
  <2>2. PICK f \in Calls : f = IF temp[x] = None THEN c ELSE temp[x]
    BY <2>1
  <2>3. /\ contents' = [contents EXCEPT ![f] = "partial"]
        /\ temp' = [temp EXCEPT ![x] = f]
        /\ at' = [at EXCEPT ![c] = Place("opened", at[c].name, f)]
        /\ final' = final /\ at[c].step = "open"
    BY <1>3, <2>1, <2>2 DEF OpenTemp, Goto
  <2>4. at[f].name = at[c].name /\ TempOf(f) = x /\ (at[f].step = "open" => f = c)
    BY <1>3, <2>1, <2>2 DEF OpenTemp
  <2>5. /\ \A g \in Calls : at'[g].name = at[g].name /\ (g # c => at'[g] = at[g])
        /\ at'[c].file = f /\ at'[c].step = "opened"
    BY <2>3
  <2>6. \A g \in Calls : contents'[g] = IF g = f THEN "partial" ELSE contents[g]
    BY <2>3
  <2>7. \A c1 \in Calls : contents'[c1] # "none" => at'[c1].step \notin {"idle", "open"}
    BY <2>2, <2>4, <2>5, <2>6
  <2>8. \A n \in Names : final'[n] # None => CreatedFor(final[n], n)'
    BY <2>3, <2>5, <2>6
  <2>9. \A y \in TempNames :
           temp'[y] # None => contents'[temp'[y]] # "none" /\ TempOf(temp[y])' = y
    <3>1. ASSUME NEW y \in TempNames, y = x  PROVE temp'[y] = f /\ TempOf(temp[y])' = y
      BY <2>3, <2>4, <2>5, <3>1
    <3>2. ASSUME NEW y \in TempNames, y # x, temp'[y] # None
          PROVE  /\ temp'[y] = temp[y] /\ temp[y] \in Calls /\ contents[temp[y]] # "none"
                 /\ TempOf(temp[y])' = y
      BY <2>3, <2>5, <3>2
    <3>. QED
      BY <2>6, <3>1, <3>2
  <2>10. \A g \in Calls : at'[g].file # None => CreatedFor(at[g].file, at[g].name)'
    BY <2>3, <2>4, <2>5, <2>6
  <2>. QED
    BY <2>7, <2>8, <2>9, <2>10
<1>4. ASSUME NEW c \in Calls, WriteTemp(c)  PROVE FilesNamed'
  BY <1>4 DEF WriteTemp, Goto
<1>5. ASSUME NEW c \in Calls, Replace(c)  PROVE FilesNamed'
  BY <1>5 DEF Replace, Goto, TempOf
<1>6. ASSUME NEW c \in Calls, RecordArtifact(c)  PROVE FilesNamed'
  BY <1>6 DEF RecordArtifact, Goto
<1>7. ASSUME NEW c \in Calls, RecordItem(c)  PROVE FilesNamed'
  BY <1>7 DEF RecordItem, Goto
<1>8. ASSUME NEW c \in Calls, Raise(c)  PROVE FilesNamed'
  BY <1>8 DEF Raise, Goto, Running, Released, TempOf
<1>9. ASSUME NEW c \in Calls, Die(c)  PROVE FilesNamed'
  BY <1>9 DEF Die, Goto, Running, Released
<1>10. CASE UNCHANGED storageVars
  BY <1>10 DEF storageVars
<1>. QED
  BY <1>1, <1>2, <1>3, <1>4, <1>5, <1>6, <1>7, <1>8, <1>9, <1>10
     DEF StorageNext, Proceed

\* Only OpenTemp makes a file partial; it holds the file open until the file is whole.
LEMMA PartsStep ==
    ASSUME StorageTypeOK, StorageTypeOK', FilesNamed, PartsExplained, [StorageNext]_storageVars
    PROVE  PartsExplained'
<1>. USE NamesDisjoint, NoneIsNoName, TempNamesAreNew, PackagedAreNames
        DEF Names, TempNames, StorageTypeOK, Steps, Place, FilesNamed, CreatedFor,
            PartsExplained, Truncated
<1>1. ASSUME NEW c \in Calls, NEW d \in Digests, Persist(c, d)  PROVE PartsExplained'
  BY <1>1 DEF Persist, Stored
<1>2. ASSUME NEW c \in Calls, NEW s \in Secrets, Store(c, s)  PROVE PartsExplained'
  BY <1>2 DEF Store, Stored, Unlocked
<1>3. ASSUME NEW c \in Calls, OpenTemp(c)  PROVE PartsExplained'
  BY <1>3 DEF OpenTemp, Goto, TempOf
<1>4. ASSUME NEW c \in Calls, WriteTemp(c)  PROVE PartsExplained'
  BY <1>4 DEF WriteTemp, Goto
<1>5. ASSUME NEW c \in Calls, Replace(c)  PROVE PartsExplained'
  BY <1>5 DEF Replace, Goto, TempOf
<1>6. ASSUME NEW c \in Calls, RecordArtifact(c)  PROVE PartsExplained'
  BY <1>6 DEF RecordArtifact, Goto
<1>7. ASSUME NEW c \in Calls, RecordItem(c)  PROVE PartsExplained'
  BY <1>7 DEF RecordItem, Goto
<1>8. ASSUME NEW c \in Calls, Raise(c)  PROVE PartsExplained'
  BY <1>8 DEF Raise, Goto, Running, Released, TempOf
<1>9. ASSUME NEW c \in Calls, Die(c)  PROVE PartsExplained'
  BY <1>9 DEF Die, Goto, Running, Released
<1>10. CASE UNCHANGED storageVars
  BY <1>10 DEF storageVars
<1>. QED
  BY <1>1, <1>2, <1>3, <1>4, <1>5, <1>6, <1>7, <1>8, <1>9, <1>10
     DEF StorageNext, Proceed

\* A row follows the replacement that gave its content a final name, and none is taken away.
LEMMA RowsStep ==
    ASSUME StorageTypeOK, StorageTypeOK', FilesNamed, RowsBacked, [StorageNext]_storageVars
    PROVE  RowsBacked'
<1>. USE NamesDisjoint, NoneIsNoName, TempNamesAreNew, PackagedAreNames
        DEF Names, TempNames, StorageTypeOK, Steps, Place, RowsBacked
<1>1. ASSUME NEW c \in Calls, NEW d \in Digests, Persist(c, d)  PROVE RowsBacked'
  BY <1>1 DEF Persist, Stored
<1>2. ASSUME NEW c \in Calls, NEW s \in Secrets, Store(c, s)  PROVE RowsBacked'
  BY <1>2 DEF Store, Stored, Unlocked
<1>3. ASSUME NEW c \in Calls, OpenTemp(c)  PROVE RowsBacked'
  BY <1>3 DEF OpenTemp, Goto, TempOf
<1>4. ASSUME NEW c \in Calls, WriteTemp(c)  PROVE RowsBacked'
  BY <1>4 DEF WriteTemp, Goto
<1>5. ASSUME NEW c \in Calls, Replace(c)  PROVE RowsBacked'
  BY <1>5 DEF Replace, Goto, TempOf
<1>6. ASSUME NEW c \in Calls, RecordArtifact(c)  PROVE RowsBacked'
  BY <1>6 DEF RecordArtifact, Goto
<1>7. ASSUME NEW c \in Calls, RecordItem(c)  PROVE RowsBacked'
  BY <1>7 DEF RecordItem, Goto
<1>8. ASSUME NEW c \in Calls, Raise(c)  PROVE RowsBacked'
  BY <1>8 DEF Raise, Goto, Running, Released, TempOf
<1>9. ASSUME NEW c \in Calls, Die(c)  PROVE RowsBacked'
  BY <1>9 DEF Die, Goto, Running, Released
<1>10. CASE UNCHANGED storageVars
  BY <1>10 DEF storageVars
<1>. QED
  BY <1>1, <1>2, <1>3, <1>4, <1>5, <1>6, <1>7, <1>8, <1>9, <1>10
     DEF StorageNext, Proceed

\* While a vault call has the lock nobody else touches the temporary or the final file of
\* its item; a file of another name is another file.
LEMMA ItemsStep ==
    ASSUME StorageTypeOK, StorageTypeOK', FilesNamed, ItemsHeld, [StorageNext]_storageVars
    PROVE  ItemsHeld'
<1>. USE NamesDisjoint, NoneIsNoName, TempNamesAreNew, PackagedAreNames
        DEF Names, TempNames, StorageTypeOK, Steps, Place, FilesNamed, CreatedFor,
            ItemsHeld, ItemStands, Whole, Running, TempOf
<1>1. ASSUME NEW c \in Calls, NEW d \in Digests, Persist(c, d)  PROVE ItemsHeld'
  BY <1>1 DEF Persist, Stored
<1>2. ASSUME NEW c \in Calls, NEW s \in Secrets, Store(c, s)  PROVE ItemsHeld'
  BY <1>2 DEF Store, Stored, Unlocked
<1>3. ASSUME NEW c \in Calls, OpenTemp(c)  PROVE ItemsHeld'
  BY <1>3 DEF OpenTemp, Goto, TempOf
<1>4. ASSUME NEW c \in Calls, WriteTemp(c)  PROVE ItemsHeld'
  BY <1>4 DEF WriteTemp, Goto
<1>5. ASSUME NEW c \in Calls, Replace(c)  PROVE ItemsHeld'
  BY <1>5 DEF Replace, Goto, TempOf
<1>6. ASSUME NEW c \in Calls, RecordArtifact(c)  PROVE ItemsHeld'
  BY <1>6 DEF RecordArtifact, Goto
<1>7. ASSUME NEW c \in Calls, RecordItem(c)  PROVE ItemsHeld'
  BY <1>7 DEF RecordItem, Goto
<1>8. ASSUME NEW c \in Calls, Raise(c)  PROVE ItemsHeld'
  BY <1>8 DEF Raise, Goto, Running, Released, TempOf
<1>9. ASSUME NEW c \in Calls, Die(c)  PROVE ItemsHeld'
  BY <1>9 DEF Die, Goto, Running, Released
<1>10. CASE UNCHANGED storageVars
  BY <1>10 DEF storageVars
<1>. QED
  BY <1>1, <1>2, <1>3, <1>4, <1>5, <1>6, <1>7, <1>8, <1>9, <1>10
     DEF StorageNext, Proceed

\* No other call of the single file opens, moves or removes a call's temporary file.
LEMMA OwnStep ==
    ASSUME StorageTypeOK, StorageTypeOK', FilesNamed, OwnFiles, [StorageNext]_storageVars
    PROVE  OwnFiles'
<1>. USE NamesDisjoint, NoneIsNoName, TempNamesAreNew, PackagedAreNames
        DEF Names, TempNames, StorageTypeOK, Steps, Place, FilesNamed, CreatedFor,
            OwnFiles, OwnFile, Whole, SingleFileNames, TempOf
<1>1. ASSUME NEW c \in Calls, NEW d \in Digests, Persist(c, d)  PROVE OwnFiles'
  BY <1>1 DEF Persist, Stored
<1>2. ASSUME NEW c \in Calls, NEW s \in Secrets, Store(c, s)  PROVE OwnFiles'
  BY <1>2 DEF Store, Stored, Unlocked
<1>3. ASSUME NEW c \in Calls, OpenTemp(c)  PROVE OwnFiles'
  BY <1>3 DEF OpenTemp, Goto, TempOf
<1>4. ASSUME NEW c \in Calls, WriteTemp(c)  PROVE OwnFiles'
  BY <1>4 DEF WriteTemp, Goto
<1>5. ASSUME NEW c \in Calls, Replace(c)  PROVE OwnFiles'
  BY <1>5 DEF Replace, Goto, TempOf
<1>6. ASSUME NEW c \in Calls, RecordArtifact(c)  PROVE OwnFiles'
  BY <1>6 DEF RecordArtifact, Goto
<1>7. ASSUME NEW c \in Calls, RecordItem(c)  PROVE OwnFiles'
  BY <1>7 DEF RecordItem, Goto
<1>8. ASSUME NEW c \in Calls, Raise(c)  PROVE OwnFiles'
  BY <1>8 DEF Raise, Goto, Running, Released, TempOf
<1>9. ASSUME NEW c \in Calls, Die(c)  PROVE OwnFiles'
  BY <1>9 DEF Die, Goto, Running, Released
<1>10. CASE UNCHANGED storageVars
  BY <1>10 DEF storageVars
<1>. QED
  BY <1>1, <1>2, <1>3, <1>4, <1>5, <1>6, <1>7, <1>8, <1>9, <1>10
     DEF StorageNext, Proceed

LEMMA StorageInvariant == StorageSpec => []StorageInv
<1>1. StorageInit => StorageInv
  BY NoneIsNoName
     DEF StorageInit, StorageInv, StorageTypeOK, FilesNamed, PartsExplained, RowsBacked,
         ItemsHeld, OwnFiles, OwnFile, Running, Place, Steps, SingleFileNames, Names, TempNames
<1>2. StorageInv /\ [StorageNext]_storageVars => StorageInv'
  BY StorageTypeStep, NamedStep, PartsStep, RowsStep, ItemsStep, OwnStep DEF StorageInv
<1>. QED
  BY <1>1, <1>2, PTL DEF StorageSpec

\* Type correctness of the two stores' files, links, rows and calls.
THEOREM StorageTypeCorrect == StorageSpec => []StorageTypeOK
<1>1. StorageInv => StorageTypeOK
  BY DEF StorageInv
<1>. QED
  BY <1>1, StorageInvariant, PTL

\* An artifact row has a file, and a file that somebody reads half written under its
\* final name has a call of persist or store that is about to finish it, or that raised
\* or died (evidence/store.py:26-30).
THEOREM TruncationAlwaysExplained == StorageSpec => []TruncationExplained
<1>1. StorageInv => TruncationExplained
  <2>. SUFFICES ASSUME StorageInv PROVE TruncationExplained
    OBVIOUS
  <2>1. \A d \in artifactRows : final[d] # None
    BY DEF StorageInv, RowsBacked
  <2>2. ASSUME NEW n \in Names, final[n] # None, contents[final[n]] # "complete"
        PROVE  Truncated(final[n])
    <3>1. final[n] \in Calls /\ contents[final[n]] \in {"none", "partial", "complete"}
      BY <2>2 DEF StorageInv, StorageTypeOK
    <3>2. contents[final[n]] # "none"
      BY <2>2 DEF StorageInv, FilesNamed, CreatedFor
    <3>. QED
      BY <2>2, <3>1, <3>2 DEF StorageInv, PartsExplained
  <2>. QED
    BY <2>1, <2>2 DEF TruncationExplained, Truncated
<1>. QED
  BY <1>1, StorageInvariant, PTL

\* A vault item with a row can be decrypted, whatever calls race, raise or die: its file
\* was whole before the row was written and is not opened again (evidence/vault.py:36-55).
THEOREM VaultRowsAlwaysReadable == StorageSpec => []VaultRowsReadable
<1>1. StorageInv => VaultRowsReadable
  BY DEF StorageInv, ItemsHeld, Whole, VaultRowsReadable
<1>. QED
  BY <1>1, StorageInvariant, PTL

--------------------------------------------------------------------------------
\* What a final name of the single file shows is whole.
LEMMA ShownIsWhole ==
    ASSUME StorageInv, NEW n \in SingleFileNames
    PROVE  Shown[n] = IF final[n] = None THEN "none" ELSE "complete"
  BY DEF StorageInv, OwnFiles, Whole, Shown, Stored

\* A step of the stores keeps a content of the single file, or indexes one that is kept,
\* or is none of ContentStore's business.
LEMMA ContentStep ==
    StorageInv /\ StorageInv' /\ [StorageNext]_storageVars
        => [SingleFileStore!Next]_<<Shown, artifactRows \ Packaged>>
<1>. SUFFICES ASSUME StorageInv, StorageInv', [StorageNext]_storageVars
              PROVE  [SingleFileStore!Next]_<<Shown, artifactRows \ Packaged>>
  OBVIOUS
<1>1. final \in [Names -> Calls \cup {None}] /\ SingleFileNames \subseteq Names
  BY DEF StorageInv, StorageTypeOK, SingleFileNames
<1>2. \A n \in SingleFileNames : Shown[n] = IF final[n] = None THEN "none" ELSE "complete"
  BY ShownIsWhole
<1>3. \A n \in SingleFileNames : Shown'[n] = IF final'[n] = None THEN "none" ELSE "complete"
  BY DEF StorageInv, OwnFiles, Whole, Shown, Stored
<1>4. ASSUME final' = final, artifactRows' = artifactRows
      PROVE  UNCHANGED <<Shown, artifactRows \ Packaged>>
  <2>1. \A n \in SingleFileNames : Shown'[n] = Shown[n]
    BY <1>2, <1>3, <1>4
  <2>2. Shown' = Shown
    BY <2>1 DEF Shown
  <2>. QED
    BY <1>4, <2>2
<1>5. ASSUME NEW c \in Calls, Replace(c)
      PROVE  [SingleFileStore!Next]_<<Shown, artifactRows \ Packaged>>
  <2> DEFINE n == at[c].name
  <2>1. n \in Names /\ temp[TempOf(c)] # None /\ artifactRows' = artifactRows
        /\ final' = [final EXCEPT ![n] = temp[TempOf(c)]]
    BY <1>5 DEF Replace, StorageInv, StorageTypeOK
  <2>2. CASE n \in Packaged
    <3>1. \A m \in SingleFileNames : Shown'[m] = Shown[m]
      BY <1>1, <1>2, <1>3, <2>1, <2>2 DEF SingleFileNames
    <3>2. Shown' = Shown
      BY <3>1 DEF Shown
    <3>. QED
      BY <2>1, <3>2
  <2>3. CASE n \notin Packaged
    <3>1. n \in SingleFileNames
      BY <2>1, <2>3 DEF SingleFileNames
    <3>2. \A m \in SingleFileNames : Shown'[m] = IF m = n THEN "complete" ELSE Shown[m]
      BY <1>1, <1>2, <1>3, <2>1, <3>1
    <3>3. Shown' = [Shown EXCEPT ![n] = "complete"]
      BY <3>1, <3>2 DEF Shown
    <3>. QED
      BY <2>1, <3>1, <3>3 DEF SingleFileStore!Next, SingleFileStore!Keep
  <2>. QED
    BY <2>2, <2>3
<1>6. ASSUME NEW c \in Calls, RecordArtifact(c)
      PROVE  [SingleFileStore!Next]_<<Shown, artifactRows \ Packaged>>
  <2> DEFINE d == at[c].name
  <2>1. /\ d \in Digests /\ at[c].step = "record" /\ final' = final
        /\ artifactRows' = artifactRows \cup {d}
    BY <1>6 DEF RecordArtifact
  <2>2. \A n \in SingleFileNames : Shown'[n] = Shown[n]
    BY <1>2, <1>3, <2>1
  <2>3. Shown' = Shown
    BY <2>2 DEF Shown
  <2>4. CASE d \in Packaged
    BY <2>1, <2>3, <2>4
  <2>5. CASE d \notin Packaged
    <3>1. d \in SingleFileNames /\ final[d] # None
      BY <2>1, <2>5 DEF SingleFileNames, Names, StorageInv, RowsBacked
    <3>2. Shown[d] = "complete"
      BY <1>2, <3>1
    <3>3. (artifactRows \ Packaged)' = (artifactRows \ Packaged) \cup {d}
      BY <2>1, <2>5
    <3>. QED
      BY <2>3, <3>1, <3>2, <3>3 DEF SingleFileStore!Next, SingleFileStore!Index
  <2>. QED
    BY <2>4, <2>5
<1>. QED
  BY <1>4, <1>5, <1>6
     DEF StorageNext, Proceed, Persist, Store, OpenTemp, WriteTemp, RecordItem, Raise, Die,
         storageVars

\* The single file's stores implement the content store RepositoryReview is built on:
\* whatever calls share, raise or die, a final name shows nothing or the whole content,
\* for good, and an artifact is kept before it has a row (evidence.py:24-110).
THEOREM StoresImplementContentStore == StorageSpec => ImplementsContentStore
<1>1. StorageInit => SingleFileStore!Init
  BY DEF StorageInit, SingleFileStore!Init, Shown, Stored, SingleFileNames
<1>2. StorageInv /\ StorageInv' /\ [StorageNext]_storageVars
         => [SingleFileStore!Next]_<<Shown, artifactRows \ Packaged>>
  BY ContentStep
<1>. QED
  BY <1>1, <1>2, StorageInvariant, PTL
     DEF StorageSpec, ImplementsContentStore, SingleFileStore!Spec,
         SingleFileStore!contentVars
=============================================================================
