----------------------------- MODULE ConfigFile -----------------------------
(***************************************************************************)
(* The saved configuration of one engine: Config::load_or_default and      *)
(* save (config.rs), routing::persist and its callers, and what main.rs    *)
(* does with the file at start-up.                                         *)
(*                                                                         *)
(* Every task that changes a route, a manual host or the interface saves   *)
(* the whole configuration afterwards.  Nothing orders those saves: each   *)
(* collects the live state field by field, fills a scratch file of its     *)
(* own, and renames it over the one file.  The process may be killed and   *)
(* the power may fail between any two steps.                               *)
(*                                                                         *)
(* A configuration is the node id and the fields in the order in which     *)
(* persist reads them; a field holds one of a few values.                  *)
(***************************************************************************)
EXTENDS Naturals, Sequences

CONSTANTS
  Savers,     (* tasks that edit and save                                  *)
  Fields,     (* how many fields a configuration has                       *)
  Values,     (* what a field may hold                                     *)
  Default,    (* what it holds without a file                              *)
  MaxIds,     (* bound: node ids minted                                    *)
  MaxCuts,    (* bound: kills and power cuts                               *)
  NoId, NoFile, Torn

NodeIds == 1..MaxIds
Fresh   == [k \in 1..Fields |-> Default]
Config  == [id : NodeIds \cup {NoId}, fields : [1..Fields -> Values]]

\* A file: its contents, and whether they have reached the platter.
File    == [data : Config \cup {Torn}, synced : BOOLEAN]

\* Files from before there was a node id still load.
Legacy  == [data : {c \in Config : c.id = NoId}, synced : {TRUE}]

ASSUME FieldsAssumption == Fields \in Nat \ {0} /\ Default \in Values
ASSUME BoundsAssumption == MaxCuts \in Nat /\ MaxIds \in Nat /\ MaxIds > MaxCuts
ASSUME SentinelAssumption == NoId \notin NodeIds /\ NoFile \notin File /\ Torn \notin Config

VARIABLES
  up,         (* the engine runs                                           *)
  id,         (* EngineIdentity.node_id                                    *)
  live,       (* the fields in memory                                      *)
  pc,         (* where each saver is                                       *)
  copy,       (* the fields it has collected so far                        *)
  scratch,    (* its scratch file                                          *)
  file,       (* what a reader of the path finds                           *)
  durable,    (* what a reader may find after a power cut                  *)
  minted, cuts,
  crossed     (* history: since the last start or undisturbed edit, saves  *)
              (* have overlapped, failed or been dropped                   *)

disk == <<scratch, file, durable>>
vars == <<up, id, live, pc, copy, disk, minted, cuts, crossed>>

TypeOK ==
  /\ up \in BOOLEAN /\ crossed \in BOOLEAN
  /\ id \in NodeIds \cup {NoId}
  /\ live \in [1..Fields -> Values]
  /\ pc \in [Savers -> {"idle", "collect", "create", "write", "sync", "rename", "dirsync"}]
  /\ copy \in [Savers -> Seq(Values)]
  /\ \A s \in Savers : Len(copy[s]) <= Fields
  /\ scratch \in [Savers -> File \cup {NoFile}]
  /\ file \in File \cup {NoFile}
  /\ durable \in SUBSET (File \cup {NoFile})
  /\ minted \in 0..MaxIds /\ cuts \in 0..MaxCuts

Init ==
  /\ up = FALSE /\ id = NoId /\ live = Fresh
  /\ pc = [s \in Savers |-> "idle"] /\ copy = [s \in Savers |-> <<>>]
  /\ scratch = [s \in Savers |-> NoFile]
  /\ file \in Legacy \cup {NoFile} /\ durable = {file}
  /\ minted = 0 /\ cuts = 0 /\ crossed = FALSE

-----------------------------------------------------------------------------
Idle  == \A s \in Savers : pc[s] = "idle"
Quiet == up /\ Idle

\* The scratch file's name: no two saves share one.
temp_sibling(s) == s

\* Faulty variant of Collected: the node id is left out.
CollectedMutant(s) == [id |-> NoId, fields |-> copy[s]]

\* What persist writes for the fields it has collected.
Collected(s) == [id |-> id, fields |-> copy[s]]

Goto(s, where) == pc' = [pc EXCEPT ![s] = where]

\* A save that ends without the file it wanted.
Fail(s) == /\ Goto(s, "idle")
           /\ copy' = [copy EXCEPT ![s] = <<>>]
           /\ crossed' = TRUE

-----------------------------------------------------------------------------
(* Start-up: main.rs, before any other task runs.                          *)

\* load_or_default.
Loaded == IF file = NoFile THEN [id |-> NoId, fields |-> Fresh] ELSE file.data

Start(c) == /\ ~up /\ up' = TRUE
            /\ live' = c.fields
            /\ UNCHANGED <<pc, copy, scratch, cuts>>

\* The file has an identity: it is taken, and nothing is saved.
Restore ==
  /\ Loaded # Torn /\ Loaded.id # NoId
  /\ Start(Loaded)
  /\ id' = Loaded.id /\ crossed' = FALSE
  /\ UNCHANGED <<file, durable, minted>>

\* There is none: an id is minted and saved at once, and if that fails the
\* engine runs on with it.
FirstRun ==
  /\ Loaded # Torn /\ Loaded.id = NoId /\ minted < MaxIds
  /\ Start(Loaded)
  /\ minted' = minted + 1 /\ id' = minted'
  /\ \/ /\ file' = [data |-> [id |-> id', fields |-> Loaded.fields], synced |-> TRUE]
        /\ durable' \in {{file'}, durable \cup {file'}}
        /\ crossed' = FALSE
     \/ UNCHANGED <<file, durable>> /\ crossed' = TRUE

-----------------------------------------------------------------------------
(* An edit and the persist after it.                                       *)

\* Faulty variant of Edit: what is saved was read before the change.
EditMutant(s) ==
  /\ up /\ pc[s] = "idle"
  /\ \E k \in 1..Fields, v \in Values : live' = [live EXCEPT ![k] = v]
  /\ crossed' = ~Idle
  /\ copy' = [copy EXCEPT ![s] = live] /\ Goto(s, "create")
  /\ UNCHANGED <<up, id, disk, minted, cuts>>

Edit(s) ==
  /\ up /\ pc[s] = "idle"
  /\ \E k \in 1..Fields, v \in Values : live' = [live EXCEPT ![k] = v]
  /\ crossed' = ~Idle
  /\ Goto(s, "collect")
  /\ UNCHANGED <<up, id, copy, disk, minted, cuts>>

\* One field is read from the live state, in order.
Collect(s) ==
  /\ pc[s] = "collect" /\ Len(copy[s]) < Fields
  /\ copy' = [copy EXCEPT ![s] = Append(@, live[Len(@) + 1])]
  /\ Goto(s, IF Len(copy'[s]) = Fields THEN "create" ELSE "collect")
  /\ UNCHANGED <<up, id, live, disk, minted, cuts, crossed>>

\* The request's connection closes and its handler is dropped while it
\* waits for a lock.
Dropped(s) ==
  /\ pc[s] = "collect"
  /\ Fail(s)
  /\ UNCHANGED <<up, id, live, disk, minted, cuts>>

-----------------------------------------------------------------------------
(* write_atomically.                                                       *)

Create(s) ==
  /\ pc[s] = "create" /\ Goto(s, "write")
  /\ scratch' = [scratch EXCEPT ![temp_sibling(s)] = [data |-> Torn, synced |-> FALSE]]
  /\ UNCHANGED <<up, id, live, copy, file, durable, minted, cuts, crossed>>

Write(s) ==
  /\ pc[s] = "write" /\ Goto(s, "sync")
  /\ scratch' = [scratch EXCEPT ![temp_sibling(s)] = [data |-> Collected(s), synced |-> FALSE]]
  /\ UNCHANGED <<up, id, live, copy, file, durable, minted, cuts, crossed>>

Synced(f) == IF f = NoFile THEN f ELSE [f EXCEPT !.synced = TRUE]

\* Faulty variant of Sync: the data may still be on its way at the rename.
SyncMutant(s) ==
  /\ pc[s] = "sync" /\ Goto(s, "rename")
  /\ UNCHANGED <<up, id, live, copy, disk, minted, cuts, crossed>>

Sync(s) ==
  /\ pc[s] = "sync" /\ Goto(s, "rename")
  /\ scratch' = [scratch EXCEPT ![temp_sibling(s)] = Synced(@)]
  /\ UNCHANGED <<up, id, live, copy, file, durable, minted, cuts, crossed>>

\* One of the three fails: the scratch file goes, the old file stays.
WriteFails(s) ==
  /\ pc[s] \in {"create", "write", "sync"}
  /\ scratch' = [scratch EXCEPT ![temp_sibling(s)] = NoFile]
  /\ Fail(s)
  /\ UNCHANGED <<up, id, live, file, durable, minted, cuts>>

\* Readers see the new file at once; a power cut may undo it.
Rename(s) ==
  /\ pc[s] = "rename" /\ scratch[temp_sibling(s)] # NoFile
  /\ file' = scratch[temp_sibling(s)] /\ durable' = durable \cup {file'}
  /\ scratch' = [scratch EXCEPT ![temp_sibling(s)] = NoFile]
  /\ Goto(s, "dirsync")
  /\ UNCHANGED <<up, id, live, copy, minted, cuts, crossed>>

\* The scratch file stays where it is.
RenameFails(s) ==
  /\ pc[s] = "rename"
  /\ Fail(s)
  /\ UNCHANGED <<up, id, live, disk, minted, cuts>>

\* The directory is synced, or that is not supported: either way the save
\* is done.
DirSync(s) ==
  /\ pc[s] = "dirsync" /\ Goto(s, "idle")
  /\ copy' = [copy EXCEPT ![s] = <<>>]
  /\ durable' \in {{file}, durable}
  /\ UNCHANGED <<up, id, live, scratch, file, minted, cuts, crossed>>

-----------------------------------------------------------------------------
(* The ways down.  Scratch files that stay behind are never looked at      *)
(* again.                                                                  *)

Down ==
  /\ cuts < MaxCuts /\ cuts' = cuts + 1
  /\ up' = FALSE /\ id' = NoId /\ live' = Fresh /\ crossed' = FALSE
  /\ pc' = [s \in Savers |-> "idle"] /\ copy' = [s \in Savers |-> <<>>]
  /\ scratch' = [s \in Savers |-> NoFile]
  /\ UNCHANGED minted

Killed == up /\ Down /\ UNCHANGED <<file, durable>>

AfterCut(f) == IF f = NoFile \/ f.synced THEN f ELSE [data |-> Torn, synced |-> TRUE]

PowerCut ==
  /\ up /\ Down
  /\ \E f \in durable : file' = AfterCut(f)
  /\ durable' = {file'}

-----------------------------------------------------------------------------
Step(s) == \/ Edit(s) \/ Collect(s) \/ Dropped(s)
           \/ Create(s) \/ Write(s) \/ Sync(s) \/ WriteFails(s)
           \/ Rename(s) \/ RenameFails(s) \/ DirSync(s)

Next == Restore \/ FirstRun \/ (\E s \in Savers : Step(s)) \/ Killed \/ PowerCut

Spec == Init /\ [][Next]_vars

-----------------------------------------------------------------------------
(* Properties.                                                             *)

\* Whatever is cut short, the path holds no configuration or a whole one,
\* and so it does after a power cut: an engine never meets a file it cannot
\* parse (write_atomically, temp_sibling).
FileWhole == \A f \in durable \cup {file} : f # NoFile => AfterCut(f).data # Torn

\* The engine runs under the identity of every configuration it could be
\* restarted from, unless it has not managed to save one yet or a power cut
\* takes that first save back, whose directory entry was not synced: a restart
\* never shows its peers a stranger (node_id in persist and main.rs).
OneIdentity ==
  up => \A f \in durable \cup {file} : f # NoFile /\ f \notin Legacy => f.data.id = id

\* A save that nothing overlaps or drops brings the file in step with the
\* memory, whatever was wrong with the file before (apply_route,
\* remove_route, set_selected, add_manual, remove_manual).
SavedIsCurrent ==
  Quiet /\ ~crossed => file # NoFile /\ file.data = [id |-> id, fields |-> live]

=============================================================================
