--------------------------- MODULE ConfigFileProofs ---------------------------
(***************************************************************************)
(* Proofs about ConfigFile, for any number of savers, fields, values,      *)
(* kills and power cuts: the path always holds a whole configuration, and  *)
(* always that of the engine that runs.                                    *)
(***************************************************************************)
EXTENDS ConfigFile, TLAPS

Nameless == Legacy \cup {NoFile}

\* What a save has collected and put in its scratch file by the time it does
\* the next thing with it.
SaversInv ==
  /\ up => id \in NodeIds
  /\ ~up => \A s \in Savers : pc[s] = "idle"
  /\ \A s \in Savers : pc[s] \in {"create", "write", "sync", "rename"} => Len(copy[s]) = Fields
  /\ \A s \in Savers : pc[s] = "sync" => scratch[s] = [data |-> Collected(s), synced |-> FALSE]
  /\ \A s \in Savers : pc[s] = "rename" => scratch[s] = [data |-> Collected(s), synced |-> TRUE]

\* Everything a restart could find is on the platter, and named alike: once
\* there is a file with an id, nothing older is left but files without one.
FilesInv ==
  /\ file \in durable
  /\ \A f \in durable \ {NoFile} : f.synced /\ f.data # Torn
  /\ file \in Nameless => durable \subseteq Nameless
  /\ \A f, g \in durable \ Nameless : f.data.id = g.data.id
  /\ up => \A f \in durable \ Nameless : f.data.id = id

IInv == TypeOK /\ SaversInv /\ FilesInv

-----------------------------------------------------------------------------
(* Helpers                                                                 *)

\* A save that has collected every field has a configuration to write.
LEMMA CollectedIs ==
  ASSUME TypeOK, NEW s \in Savers, Len(copy[s]) = Fields, id \in NodeIds
  PROVE  Collected(s) \in Config /\ Collected(s) # Torn
<1>1. copy[s] \in [1..Fields -> Values]
  BY DEF TypeOK
<1>2. Collected(s) \in Config
  BY <1>1 DEF Collected, Config
<1> QED BY <1>2, SentinelAssumption

LEMMA LoadedIs ==
  ASSUME TypeOK, FilesInv
  PROVE  /\ Loaded \in Config
         /\ Loaded.id \in NodeIds \cup {NoId}
         /\ file \in Nameless <=> Loaded.id = NoId
         /\ file \notin Nameless => Loaded = file.data
<1>1. CASE file = NoFile
  BY <1>1, FieldsAssumption DEF Loaded, Config, Fresh, Nameless
<1>2. CASE file # NoFile
  <2>1. file \in File /\ file.synced /\ file.data # Torn
    BY <1>2 DEF TypeOK, FilesInv
  <2>2. file.data \in Config /\ Loaded = file.data
    BY <1>2, <2>1 DEF File, Loaded
  <2>3. file.data.id = NoId => file \in Legacy
    BY <2>1, <2>2 DEF File, Legacy
  <2>4. file \in Legacy => file.data.id = NoId
    BY DEF Legacy
  <2>5. file.data.id \in NodeIds \cup {NoId}
    BY <2>2 DEF Config
  <2> QED BY <1>2, <2>2, <2>3, <2>4, <2>5 DEF Nameless
<1> QED BY <1>1, <1>2

\* A file that holds the identity of an engine is not one from before there
\* were any.
LEMMA Named ==
  ASSUME NEW c \in Config, c.id \in NodeIds, NEW b \in BOOLEAN
  PROVE  /\ [data |-> c, synced |-> b] \in File
         /\ [data |-> c, synced |-> b] \notin Nameless
<1>1. [data |-> c, synced |-> b] \in File
  BY DEF File
<1>2. [data |-> c, synced |-> b] # NoFile
  BY <1>1, SentinelAssumption
<1>3. [data |-> c, synced |-> b] \notin Legacy
  BY SentinelAssumption DEF Legacy
<1> QED BY <1>1, <1>2, <1>3 DEF Nameless

LEMMA InitInv == Init => IInv
<1> SUFFICES ASSUME Init PROVE IInv
  OBVIOUS
<1>1. file \in File \cup {NoFile}
  BY DEF Init, Legacy, File
<1>2. Fresh \in [1..Fields -> Values]
  BY FieldsAssumption DEF Fresh
<1>3. TypeOK
  <2>1. /\ up \in BOOLEAN /\ crossed \in BOOLEAN /\ id \in NodeIds \cup {NoId}
        /\ live \in [1..Fields -> Values] /\ scratch \in [Savers -> File \cup {NoFile}]
        /\ file \in File \cup {NoFile} /\ durable \in SUBSET (File \cup {NoFile})
    BY <1>1, <1>2 DEF Init
  <2>2. minted \in 0..MaxIds /\ cuts \in 0..MaxCuts
    BY BoundsAssumption DEF Init
  <2>3. /\ pc \in [Savers -> {"idle"}]
        /\ copy \in [Savers -> {<<>>}] /\ <<>> \in Seq(Values) /\ Len(<<>>) <= Fields
    BY FieldsAssumption DEF Init
  <2> QED BY <2>1, <2>2, <2>3 DEF TypeOK
<1>4. SaversInv
  BY DEF Init, SaversInv
<1>5. FilesInv
  BY SentinelAssumption DEF Init, FilesInv, Nameless, Legacy
<1> QED BY <1>3, <1>4, <1>5 DEF IInv

-----------------------------------------------------------------------------
(* Starting and stopping                                                   *)

LEMMA StartInv == IInv /\ (Restore \/ FirstRun) => IInv'
<1> SUFFICES ASSUME IInv, Restore \/ FirstRun PROVE IInv'
  OBVIOUS
<1>1. /\ ~up /\ up' = TRUE /\ Loaded # Torn /\ live' = Loaded.fields
      /\ UNCHANGED <<pc, copy, scratch, cuts>>
      /\ live' \in [1..Fields -> Values]
  BY LoadedIs DEF Restore, FirstRun, Start, IInv, Config
<1>2. \A s \in Savers : pc[s] = "idle"
  BY <1>1 DEF IInv, SaversInv
<1>3. CASE Restore
  <2>1. /\ file \notin Nameless /\ id' = file.data.id /\ id' \in NodeIds
        /\ UNCHANGED <<file, durable, minted>> /\ crossed' = FALSE
    BY <1>3, LoadedIs DEF Restore, IInv
  <2>2. FilesInv'
    BY <2>1 DEF IInv, FilesInv
  <2>3. SaversInv'
    BY <1>1, <1>2, <2>1 DEF SaversInv
  <2>4. TypeOK'
    BY <1>1, <2>1 DEF IInv, TypeOK
  <2> QED BY <2>2, <2>3, <2>4 DEF IInv
<1>4. CASE FirstRun
  <2>1. /\ file \in Nameless /\ durable \subseteq Nameless
        /\ minted \in Nat /\ minted < MaxIds /\ minted' = minted + 1
        /\ id' = minted' /\ crossed' \in BOOLEAN
    <3>1. file \in Nameless /\ durable \subseteq Nameless
      BY <1>4, LoadedIs DEF FirstRun, IInv, FilesInv
    <3>2. minted \in Nat
      BY BoundsAssumption DEF IInv, TypeOK
    <3> QED BY <1>4, <3>1, <3>2 DEF FirstRun
  <2>2. id' \in NodeIds /\ minted' \in 0..MaxIds
    BY <2>1, BoundsAssumption DEF NodeIds
  <2>3. SaversInv'
    BY <1>1, <1>2, <2>2 DEF SaversInv
  <2>4. CASE UNCHANGED <<file, durable>>
    <3>1. FilesInv'
      BY <2>1, <2>4 DEF IInv, FilesInv
    <3>2. TypeOK'
      BY <1>1, <2>1, <2>2, <2>4 DEF IInv, TypeOK
    <3> QED BY <2>3, <3>1, <3>2 DEF IInv
  <2>5. CASE /\ file' = [data |-> [id |-> id', fields |-> Loaded.fields], synced |-> TRUE]
             /\ durable' \in {{file'}, durable \cup {file'}}
    <3> DEFINE c == [id |-> id', fields |-> Loaded.fields]
    <3>1. c \in Config /\ c.id = id'
      BY <1>1, <2>2 DEF Config
    <3> HIDE DEF c
    <3>2. file' = [data |-> c, synced |-> TRUE]
      BY <2>5 DEF c
    <3>3. file' \in File /\ file' \notin Nameless
      BY <2>2, <3>1, <3>2, Named
    <3>4. file'.data.id = id' /\ file'.synced /\ file'.data # Torn
      BY <3>1, <3>2, SentinelAssumption
    <3>5. FilesInv'
      BY <2>1, <2>5, <3>3, <3>4 DEF IInv, FilesInv
    <3>6. TypeOK'
      BY <1>1, <2>1, <2>2, <2>5, <3>3 DEF IInv, TypeOK
    <3> QED BY <2>3, <3>5, <3>6 DEF IInv
  <2> QED BY <1>4, <2>4, <2>5 DEF FirstRun
<1> QED BY <1>3, <1>4

\* All that a power cut leaves was on the platter.
LEMMA StopInv == IInv /\ (Killed \/ PowerCut) => IInv'
<1> SUFFICES ASSUME IInv, Killed \/ PowerCut PROVE IInv'
  OBVIOUS
<1>1. Down
  BY DEF Killed, PowerCut
<1>2. SaversInv'
  BY <1>1 DEF Down, SaversInv
<1>3. PICK f \in durable : file' = f /\ (durable' = durable \/ durable' = {f}) /\ (durable' = durable => file' = file)
  <2>1. CASE Killed
    BY <2>1 DEF Killed, IInv, FilesInv
  <2>2. CASE PowerCut
    <3> PICK f \in durable : file' = AfterCut(f) /\ durable' = {file'}
      BY <2>2 DEF PowerCut
    <3>1. AfterCut(f) = f
      BY DEF AfterCut, IInv, FilesInv
    <3>2. durable = {f} => file = f
      BY DEF IInv, FilesInv
    <3> QED BY <3>1, <3>2
  <2> QED BY <2>1, <2>2
<1>4. FilesInv'
  BY <1>1, <1>3 DEF Down, IInv, FilesInv
<1>5. TypeOK'
  <2>1. file' \in File \cup {NoFile} /\ durable' \in SUBSET (File \cup {NoFile})
    BY <1>3 DEF IInv, TypeOK
  <2>2. /\ up' \in BOOLEAN /\ crossed' \in BOOLEAN /\ id' \in NodeIds \cup {NoId}
        /\ live' \in [1..Fields -> Values] /\ scratch' \in [Savers -> File \cup {NoFile}]
    BY <1>1, FieldsAssumption DEF Down, Fresh
  <2>3. minted' \in 0..MaxIds /\ cuts' \in 0..MaxCuts
    BY <1>1, BoundsAssumption DEF Down, IInv, TypeOK
  <2>4. /\ pc' \in [Savers -> {"idle"}]
        /\ copy' \in [Savers -> {<<>>}] /\ <<>> \in Seq(Values) /\ Len(<<>>) <= Fields
    BY <1>1, FieldsAssumption DEF Down
  <2> QED BY <2>1, <2>2, <2>3, <2>4 DEF TypeOK
<1> QED BY <1>2, <1>4, <1>5 DEF IInv

-----------------------------------------------------------------------------
(* Editing and saving                                                      *)

\* One saver's step leaves the others where they are.
LEMMA OneSaver ==
  ASSUME IInv, NEW s \in Savers, up, UNCHANGED <<up, id>>,
         \A t \in Savers \ {s} :
           pc'[t] = pc[t] /\ copy'[t] = copy[t] /\ scratch'[t] = scratch[t],
         pc'[s] \in {"create", "write", "sync", "rename"} => Len(copy'[s]) = Fields,
         pc'[s] = "sync" => scratch'[s] = [data |-> Collected(s), synced |-> FALSE]',
         pc'[s] = "rename" => scratch'[s] = [data |-> Collected(s), synced |-> TRUE]'
  PROVE  SaversInv'
<1>1. \A t \in Savers \ {s} : Collected(t)' = Collected(t)
  BY DEF Collected
<1>2. ASSUME NEW t \in Savers
      PROVE  /\ pc'[t] \in {"create", "write", "sync", "rename"} => Len(copy'[t]) = Fields
             /\ pc'[t] = "sync" => scratch'[t] = [data |-> Collected(t)', synced |-> FALSE]
             /\ pc'[t] = "rename" => scratch'[t] = [data |-> Collected(t)', synced |-> TRUE]
  <2>1. CASE t = s
    BY <2>1
  <2>2. CASE t # s
    BY <1>1, <2>2 DEF IInv, SaversInv
  <2> QED BY <2>1, <2>2
<1>3. up' /\ id' \in NodeIds
  BY DEF IInv, SaversInv
<1> QED BY <1>2, <1>3 DEF SaversInv

\* The steps of a save that touch neither the path nor the platter.
LEMMA SaveInv ==
  ASSUME IInv, NEW s \in Savers,
         \/ Edit(s) \/ Collect(s) \/ Dropped(s) \/ Create(s) \/ Write(s) \/ Sync(s)
         \/ WriteFails(s) \/ RenameFails(s)
  PROVE  IInv'
<1> USE DEF disk, temp_sibling, Goto
<1>1. UNCHANGED <<up, id, file, durable, minted, cuts>>
  BY DEF Edit, Collect, Dropped, Create, Write, Sync, WriteFails, RenameFails, Fail
<1>2. FilesInv'
  BY <1>1 DEF IInv, FilesInv
<1>3. up
  BY DEF IInv, SaversInv, TypeOK, Edit, Collect, Dropped, Create, Write, Sync, WriteFails,
         RenameFails
<1>4. id \in NodeIds
  BY <1>3 DEF IInv, SaversInv
<1>5. \A t \in Savers \ {s} :
        pc'[t] = pc[t] /\ copy'[t] = copy[t] /\ scratch'[t] = scratch[t]
  BY DEF Edit, Collect, Dropped, Create, Write, Sync, WriteFails, RenameFails, Fail, IInv, TypeOK
<1>6. CASE Edit(s)
  <2> PICK k \in 1..Fields, v \in Values : live' = [live EXCEPT ![k] = v]
    BY <1>6 DEF Edit
  <2>1. /\ pc' = [pc EXCEPT ![s] = "collect"] /\ pc'[s] = "collect"
        /\ UNCHANGED <<copy, scratch>> /\ crossed' \in BOOLEAN
    BY <1>6 DEF Edit, IInv, TypeOK
  <2>2. TypeOK'
    BY <1>1, <2>1 DEF IInv, TypeOK
  <2> QED BY <1>1, <1>2, <1>3, <1>5, <2>1, <2>2, OneSaver DEF IInv
<1>7. CASE Collect(s)
  <2> DEFINE c == Append(copy[s], live[Len(copy[s]) + 1])
  <2>1. /\ copy[s] \in Seq(Values) /\ Len(copy[s]) \in Nat /\ Len(copy[s]) + 1 <= Fields
        /\ live[Len(copy[s]) + 1] \in Values
    BY <1>7, FieldsAssumption DEF Collect, IInv, TypeOK
  <2>2. c \in Seq(Values) /\ Len(c) = Len(copy[s]) + 1
    BY <2>1
  <2>3. /\ copy' = [copy EXCEPT ![s] = c]
        /\ pc' = [pc EXCEPT ![s] = IF Len(copy'[s]) = Fields THEN "create" ELSE "collect"]
        /\ UNCHANGED <<live, scratch, crossed>>
    BY <1>7 DEF Collect
  <2> HIDE DEF c
  <2>4. copy'[s] = c /\ pc'[s] \in {"create", "collect"} /\ (pc'[s] = "create" => Len(c) = Fields)
    BY <2>3 DEF IInv, TypeOK
  <2>5. TypeOK'
    BY <1>1, <2>1, <2>2, <2>3, <2>4 DEF IInv, TypeOK
  <2> QED BY <1>1, <1>2, <1>3, <1>5, <2>4, <2>5, OneSaver DEF IInv
<1>8. CASE Dropped(s) \/ RenameFails(s) \/ WriteFails(s)
  <2>1. /\ pc' = [pc EXCEPT ![s] = "idle"] /\ pc'[s] = "idle"
        /\ copy' = [copy EXCEPT ![s] = <<>>] /\ UNCHANGED live /\ crossed' = TRUE
        /\ scratch' \in [Savers -> File \cup {NoFile}]
    BY <1>8 DEF Dropped, RenameFails, WriteFails, Fail, IInv, TypeOK
  <2>2. <<>> \in Seq(Values) /\ Len(<<>>) <= Fields
    BY FieldsAssumption
  <2>3. TypeOK'
    BY <1>1, <2>1, <2>2 DEF IInv, TypeOK
  <2> QED BY <1>1, <1>2, <1>3, <1>5, <2>1, <2>3, OneSaver DEF IInv
<1>9. CASE Create(s)
  <2>1. /\ pc[s] = "create" /\ pc' = [pc EXCEPT ![s] = "write"] /\ pc'[s] = "write"
        /\ UNCHANGED <<live, copy, crossed>>
        /\ scratch' = [scratch EXCEPT ![s] = [data |-> Torn, synced |-> FALSE]]
    BY <1>9 DEF Create, IInv, TypeOK
  <2>2. [data |-> Torn, synced |-> FALSE] \in File
    BY DEF File
  <2>3. TypeOK'
    BY <1>1, <2>1, <2>2 DEF IInv, TypeOK
  <2>4. Len(copy'[s]) = Fields
    BY <2>1 DEF IInv, SaversInv
  <2> QED BY <1>1, <1>2, <1>3, <1>5, <2>1, <2>3, <2>4, OneSaver DEF IInv
<1>10. CASE Write(s)
  <2> DEFINE f == [data |-> Collected(s), synced |-> FALSE]
  <2>1. /\ pc[s] = "write" /\ pc' = [pc EXCEPT ![s] = "sync"] /\ pc'[s] = "sync"
        /\ UNCHANGED <<live, copy, crossed>>
        /\ scratch' = [scratch EXCEPT ![s] = f]
    BY <1>10 DEF Write, IInv, TypeOK
  <2>2. Len(copy[s]) = Fields /\ Len(copy'[s]) = Fields
    BY <2>1 DEF IInv, SaversInv
  <2>3. f \in File
    BY <1>4, <2>2, CollectedIs DEF File, IInv
  <2>4. Collected(s)' = Collected(s)
    BY <1>1, <2>1 DEF Collected
  <2>5. scratch'[s] = [data |-> Collected(s), synced |-> FALSE]'
    BY <2>1, <2>4 DEF IInv, TypeOK
  <2> HIDE DEF f
  <2>6. TypeOK'
    BY <1>1, <2>1, <2>3 DEF IInv, TypeOK
  <2> QED BY <1>1, <1>2, <1>3, <1>5, <2>1, <2>2, <2>5, <2>6, OneSaver DEF IInv
<1>11. CASE Sync(s)
  <2> DEFINE f == [data |-> Collected(s), synced |-> FALSE]
             g == [data |-> Collected(s), synced |-> TRUE]
  <2>1. /\ pc[s] = "sync" /\ pc' = [pc EXCEPT ![s] = "rename"] /\ pc'[s] = "rename"
        /\ UNCHANGED <<live, copy, crossed>>
        /\ scratch' = [scratch EXCEPT ![s] = Synced(scratch[s])]
    BY <1>11 DEF Sync, IInv, TypeOK
  <2>2. Len(copy[s]) = Fields /\ Len(copy'[s]) = Fields /\ scratch[s] = f
    BY <2>1 DEF IInv, SaversInv
  <2>3. f \in File /\ g \in File
    BY <1>4, <2>2, CollectedIs DEF File, IInv
  <2>4. f # NoFile
    BY <2>3, SentinelAssumption
  <2>5. Synced(f) = g
    BY <2>4 DEF Synced
  <2>6. Collected(s)' = Collected(s)
    BY <1>1, <2>1 DEF Collected
  <2>7. scratch'[s] = [data |-> Collected(s), synced |-> TRUE]'
    BY <2>1, <2>2, <2>5, <2>6 DEF IInv, TypeOK
  <2> HIDE DEF f, g
  <2>8. TypeOK'
    BY <1>1, <2>1, <2>2, <2>3, <2>5 DEF IInv, TypeOK
  <2> QED BY <1>1, <1>2, <1>3, <1>5, <2>1, <2>2, <2>7, <2>8, OneSaver DEF IInv
<1> QED BY <1>6, <1>7, <1>8, <1>9, <1>10, <1>11

\* The rename puts a whole file under the engine's own id in the path's place.
LEMMA RenameInv == ASSUME IInv, NEW s \in Savers, Rename(s) PROVE IInv'
<1> DEFINE g == [data |-> Collected(s), synced |-> TRUE]
<1>1. /\ pc[s] = "rename" /\ pc' = [pc EXCEPT ![s] = "dirsync"] /\ pc'[s] = "dirsync"
      /\ scratch' = [scratch EXCEPT ![s] = NoFile]
      /\ file' = scratch[s] /\ durable' = durable \cup {file'}
      /\ UNCHANGED <<up, id, live, copy, minted, cuts, crossed>>
  BY DEF Rename, temp_sibling, Goto, IInv, TypeOK
<1>2. up /\ id \in NodeIds
  BY <1>1 DEF IInv, SaversInv, TypeOK
<1>3. Len(copy[s]) = Fields /\ file' = g
  BY <1>1 DEF IInv, SaversInv
<1>4. Collected(s) \in Config /\ Collected(s) # Torn /\ Collected(s).id = id
  BY <1>2, <1>3, CollectedIs DEF IInv, Collected
<1>5. g \in File /\ g \notin Nameless
  BY <1>2, <1>4, Named
<1>6. g.data.id = id /\ g.synced /\ g.data # Torn
  BY <1>4
<1> HIDE DEF g
<1>7. TypeOK'
  BY <1>1, <1>3, <1>5 DEF IInv, TypeOK
<1>8. FilesInv'
  BY <1>1, <1>2, <1>3, <1>5, <1>6 DEF IInv, FilesInv
<1>9. \A t \in Savers \ {s} :
        pc'[t] = pc[t] /\ copy'[t] = copy[t] /\ scratch'[t] = scratch[t]
  BY <1>1 DEF IInv, TypeOK
<1>10. SaversInv'
  BY <1>1, <1>2, <1>9, OneSaver
<1> QED BY <1>7, <1>8, <1>10 DEF IInv

LEMMA DirSyncInv == ASSUME IInv, NEW s \in Savers, DirSync(s) PROVE IInv'
<1>1. /\ pc[s] = "dirsync" /\ pc' = [pc EXCEPT ![s] = "idle"] /\ pc'[s] = "idle"
      /\ copy' = [copy EXCEPT ![s] = <<>>]
      /\ durable' \in {{file}, durable}
      /\ UNCHANGED <<up, id, live, scratch, file, minted, cuts, crossed>>
  BY DEF DirSync, Goto, IInv, TypeOK
<1>2. up
  BY <1>1 DEF IInv, SaversInv, TypeOK
<1>3. <<>> \in Seq(Values) /\ Len(<<>>) <= Fields
  BY FieldsAssumption
<1>4. TypeOK'
  BY <1>1, <1>3 DEF IInv, TypeOK
<1>5. FilesInv'
  BY <1>1 DEF IInv, FilesInv
<1>6. \A t \in Savers \ {s} :
        pc'[t] = pc[t] /\ copy'[t] = copy[t] /\ scratch'[t] = scratch[t]
  BY <1>1 DEF IInv, TypeOK
<1>7. SaversInv'
  BY <1>1, <1>2, <1>6, OneSaver
<1> QED BY <1>4, <1>5, <1>7 DEF IInv

-----------------------------------------------------------------------------
(* The results                                                             *)

\* Types, savers and files hold in every reachable state.
THEOREM Inductive == Spec => []IInv
<1>1. IInv /\ [Next]_vars => IInv'
  <2> SUFFICES ASSUME IInv, [Next]_vars PROVE IInv'
    OBVIOUS
  <2>1. CASE UNCHANGED vars
    BY <2>1 DEF vars, disk, IInv, TypeOK, SaversInv, FilesInv, Collected
  <2>2. CASE Next
    BY <2>2, StartInv, StopInv, SaveInv, RenameInv, DirSyncInv DEF Next, Step
  <2> QED BY <2>1, <2>2
<1> QED BY <1>1, InitInv, PTL DEF Spec

\* However many saves overlap and wherever they are cut short, a restart
\* finds no configuration or a whole one (config.rs, write_atomically).
THEOREM AlwaysWhole == Spec => []FileWhole
<1>1. IInv => FileWhole
  BY DEF IInv, FilesInv, FileWhole, AfterCut
<1> QED BY <1>1, Inductive, PTL

\* An engine never comes back as a stranger to its peers (main.rs 88-104).
THEOREM AlwaysOneself == Spec => []OneIdentity
<1>1. IInv => OneIdentity
  BY DEF IInv, FilesInv, OneIdentity, Nameless
<1> QED BY <1>1, Inductive, PTL

-----------------------------------------------------------------------------
(* Up to date                                                              *)

Current == file # NoFile /\ file.data = [id |-> id, fields |-> live]

\* What a save that nobody disturbs has in hand is the live state, field by
\* field; from the rename on, the file is.
InHand(s) ==
  /\ \A t \in Savers \ {s} : pc[t] = "idle"
  /\ pc[s] = "dirsync" => Current
  /\ pc[s] # "dirsync" => \A k \in 1..Len(copy[s]) : copy[s][k] = live[k]

SavedInv ==
  /\ \A s \in Savers : pc[s] = "idle" => copy[s] = <<>>
  /\ up /\ ~crossed => /\ Idle => Current
                       /\ \A s \in Savers : pc[s] # "idle" => InHand(s)

\* What is collected is the whole of what is live.
LEMMA CollectedAll ==
  ASSUME TypeOK, NEW s \in Savers, Len(copy[s]) = Fields,
         \A k \in 1..Len(copy[s]) : copy[s][k] = live[k]
  PROVE  Collected(s) = [id |-> id, fields |-> live]
<1>1. copy[s] \in [1..Fields -> Values] /\ live \in [1..Fields -> Values]
  BY DEF TypeOK
<1>2. \A k \in 1..Fields : copy[s][k] = live[k]
  OBVIOUS
<1>3. copy[s] = live
  BY <1>1, <1>2
<1> QED BY <1>3 DEF Collected

LEMMA SavedStart == IInv /\ SavedInv /\ (Restore \/ FirstRun) => SavedInv'
<1> SUFFICES ASSUME IInv, SavedInv, Restore \/ FirstRun PROVE SavedInv'
  OBVIOUS
<1>1. /\ live' = Loaded.fields /\ UNCHANGED <<pc, copy>>
      /\ \A s \in Savers : pc'[s] = "idle"
      /\ Loaded \in Config
  BY LoadedIs DEF Restore, FirstRun, Start, IInv, SaversInv
<1>2. ASSUME ~crossed' PROVE Current'
  <2>1. CASE Restore
    <3>1. file' = file /\ id' = Loaded.id /\ file # NoFile /\ Loaded = file.data
      BY <2>1, LoadedIs DEF Restore, IInv, Nameless
    <3> QED BY <1>1, <3>1 DEF Current, Config
  <2>2. CASE FirstRun
    <3>1. file' = [data |-> [id |-> id', fields |-> Loaded.fields], synced |-> TRUE]
      BY <1>2, <2>2 DEF FirstRun, IInv, TypeOK
    <3>2. minted \in Nat /\ minted < MaxIds /\ id' = minted + 1
      BY <2>2, BoundsAssumption DEF FirstRun, IInv, TypeOK
    <3>3. id' \in NodeIds /\ Loaded.fields \in [1..Fields -> Values]
      BY <1>1, <3>2, BoundsAssumption DEF NodeIds, Config
    <3>4. [id |-> id', fields |-> Loaded.fields] \in Config
      BY <3>3 DEF Config
    <3>5. PICK c \in Config : c = [id |-> id', fields |-> Loaded.fields]
      BY <3>4
    <3>6. c.id \in NodeIds /\ file' = [data |-> c, synced |-> TRUE]
      BY <3>1, <3>3, <3>5
    <3>7. file' # NoFile
      BY <3>6, Named DEF Nameless
    <3> QED BY <1>1, <3>1, <3>7 DEF Current
  <2> QED BY <2>1, <2>2
<1> QED BY <1>1, <1>2 DEF SavedInv

LEMMA SavedSave ==
  ASSUME IInv, IInv', SavedInv, NEW s \in Savers, Step(s)
  PROVE  SavedInv'
<1> USE DEF disk, temp_sibling, Goto
<1>1. /\ up' = up /\ id' = id /\ up /\ s \in Savers
      /\ \A t \in Savers \ {s} : pc'[t] = pc[t] /\ copy'[t] = copy[t]
  BY DEF Step, Edit, Collect, Dropped, Create, Write, Sync, WriteFails, Rename, RenameFails,
         DirSync, Fail, IInv, TypeOK, SaversInv
<1>2. pc'[s] = "idle" => copy'[s] = <<>>
  BY DEF Step, Edit, Collect, Dropped, Create, Write, Sync, WriteFails, Rename, RenameFails,
         DirSync, Fail, IInv, TypeOK
<1>3. SUFFICES ASSUME ~crossed'
               PROVE  /\ Idle' => Current'
                      /\ \A t \in Savers : pc'[t] # "idle" => InHand(t)'
  BY <1>1, <1>2 DEF SavedInv
<1>4. ~(Dropped(s) \/ WriteFails(s) \/ RenameFails(s))
  BY <1>3 DEF Dropped, WriteFails, RenameFails, Fail
<1>5. \A t \in Savers \ {s} : pc'[t] = "idle"
  <2>1. CASE Edit(s)
    BY <1>1, <1>3, <2>1 DEF Edit, Idle
  <2>2. CASE ~Edit(s)
    <3>1. ~crossed /\ pc[s] # "idle"
      BY <1>3, <1>4, <2>2 DEF Step, Collect, Create, Write, Sync, Rename, DirSync
    <3> QED BY <1>1, <3>1 DEF SavedInv, InHand
  <2> QED BY <2>1, <2>2
<1>6. SUFFICES /\ pc'[s] \in {"idle", "dirsync"} => Current'
               /\ pc'[s] \notin {"idle", "dirsync"} => \A k \in 1..Len(copy'[s]) : copy'[s][k] = live'[k]
  BY <1>1, <1>5 DEF InHand, Idle
<1>7. CASE Edit(s)
  <2>1. pc'[s] = "collect" /\ copy'[s] = <<>>
    BY <1>7 DEF Edit, SavedInv, IInv, TypeOK
  <2> QED BY <2>1
<1>8. ASSUME ~Edit(s) PROVE ~crossed /\ pc[s] # "idle" /\ InHand(s) /\ live' = live
  BY <1>1, <1>3, <1>4, <1>8 DEF SavedInv, Step, Collect, Create, Write, Sync, Rename, DirSync
<1>9. CASE Collect(s)
  <2>1. /\ copy[s] \in Seq(Values) /\ Len(copy[s]) \in Nat
        /\ copy'[s] = Append(copy[s], live[Len(copy[s]) + 1])
        /\ pc[s] = "collect" /\ pc'[s] \in {"collect", "create"}
        /\ ~Edit(s)
    BY <1>9 DEF Collect, Edit, IInv, TypeOK
  <2>2. \A k \in 1..Len(copy[s]) : copy[s][k] = live[k]
    BY <1>8, <2>1 DEF InHand
  <2>3. \A k \in 1..Len(copy'[s]) : copy'[s][k] = live[k]
    BY <2>1, <2>2
  <2> QED BY <1>8, <2>1, <2>3
<1>10. CASE Create(s) \/ Write(s) \/ Sync(s)
  BY <1>8, <1>10 DEF Create, Write, Sync, Edit, InHand, IInv, TypeOK
<1>11. CASE Rename(s)
  <2>1. /\ pc[s] = "rename" /\ pc'[s] = "dirsync" /\ ~Edit(s) /\ file' = scratch[s]
    BY <1>11 DEF Rename, Edit, IInv, TypeOK
  <2>2. Len(copy[s]) = Fields /\ file' = [data |-> Collected(s), synced |-> TRUE]
    BY <2>1 DEF IInv, SaversInv
  <2>3. Collected(s) = [id |-> id, fields |-> live]
    BY <1>8, <2>1, <2>2, CollectedAll DEF InHand, IInv
  <2>4. file' # NoFile
    BY <1>11 DEF Rename
  <2> QED BY <1>1, <1>8, <2>1, <2>2, <2>3, <2>4 DEF Current
<1>12. CASE DirSync(s)
  BY <1>1, <1>8, <1>12 DEF DirSync, Edit, InHand, Current, IInv, TypeOK
<1> QED BY <1>4, <1>7, <1>9, <1>10, <1>11, <1>12 DEF Step

\* Once a save that nothing overlapped or dropped is over, the file says what
\* the engine does (routing.rs, persist and its callers).
THEOREM AlwaysCurrent == Spec => []SavedIsCurrent
<1>1. Init => SavedInv
  BY DEF Init, SavedInv
<1>2. IInv /\ IInv' /\ SavedInv /\ [Next]_vars => SavedInv'
  <2> SUFFICES ASSUME IInv, IInv', SavedInv, [Next]_vars PROVE SavedInv'
    OBVIOUS
  <2>1. CASE UNCHANGED vars
    BY <2>1 DEF vars, disk, SavedInv, Idle, InHand, Current
  <2>2. CASE Killed \/ PowerCut
    BY <2>2 DEF Killed, PowerCut, Down, SavedInv
  <2>3. CASE Next /\ ~(Killed \/ PowerCut)
    BY <2>3, SavedStart, SavedSave DEF Next
  <2> QED BY <2>1, <2>2, <2>3
<1>3. SavedInv => SavedIsCurrent
  BY DEF SavedInv, SavedIsCurrent, Current, Quiet
<1> QED BY <1>1, <1>2, <1>3, Inductive, PTL DEF Spec
=============================================================================
