---------------------------- MODULE ReceiptStore ----------------------------
(* The store behind the share links (src/api/receipts.go) with a directory
   configured: the map in memory, one file per receipt, the writers (the Put of
   one run each), the cleanup job, and the crash and restart of the process.

   Put reads the clock before it takes the lock, fills the map under the lock and
   writes the file after releasing it; Cleanup reads the clock, empties the map
   under the lock, and removes the files after that.  So both are several steps,
   which interleave and which a crash can separate.
   os.WriteFile truncates the file, then writes it; a crash in between leaves
   it empty, and two overlapping writes may leave a mixture.

   An ID is derived from the receipt, which holds the time it was verified at:
   two runs share an ID only if they were verified at the same time.  What a
   record holds besides its creation time is abstracted away.              *)
EXTENDS Integers, FiniteSets

CONSTANTS
  IDs,         \* receipt IDs
  Writers,     \* the executor goroutines, one Put each
  Keep,        \* Config.Retention
  Lag,         \* longest time from verification to the end of Put
  MaxCrashes,  \* bound on the crashes
  Horizon      \* bound on the clock

ASSUME StoreAssumption ==
  /\ Keep \in Nat /\ Lag \in Nat /\ Lag < Keep
  /\ MaxCrashes \in Nat /\ Horizon \in Nat

VARIABLES
  clock,
  up,        \* the process is running
  crashes,
  mem,       \* ReceiptStore.runs: the CreatedAt of each record, or Gone
  disk,      \* the files: the CreatedAt of the record in each, or no record
  now,       \* what Cleanup read of the clock, or Gone
  removing,  \* the IDs whose files Cleanup has still to remove
  pc,        \* where each writer stands
  id,        \* the ID of each writer's receipt
  created,   \* the CreatedAt of each writer's record
  born       \* when the receipts with each ID were verified

writerVars == <<pc, id, created, born>>
vars == <<clock, up, crashes, mem, disk, now, removing, writerVars>>

Gone == -1      \* no record in memory, no file on disk
Empty == -2     \* a file just truncated
Torn == -3      \* a file that does not parse

Records == 0..Horizon

InFlight == {"verified", "stamped", "opening", "writing"}

----------------------------------------------------------------------------
Init ==
  /\ clock = 0 /\ up = TRUE /\ crashes = 0
  /\ mem = [i \in IDs |-> Gone] /\ disk = [i \in IDs |-> Gone]
  /\ now = Gone /\ removing = {}
  /\ pc = [w \in Writers |-> "idle"] /\ id \in [Writers -> IDs]
  /\ created = [w \in Writers |-> 0] /\ born = [i \in IDs |-> Gone]

Goto(w, from, to) == pc[w] = from /\ pc' = [pc EXCEPT ![w] = to]

\* Faulty: the ID does not depend on the time of the verification.
VerifyTimeless(w) ==
  /\ up
  /\ Goto(w, "idle", "verified")
  /\ born' = [born EXCEPT ![id[w]] = clock]
  /\ UNCHANGED <<clock, up, crashes, mem, disk, now, removing, id, created>>

\* worker.Run stamps the receipt; DeriveID hashes it, the stamp included.
Verify(w) ==
  /\ up /\ born[id[w]] \in {Gone, clock}
  /\ Goto(w, "idle", "verified")
  /\ born' = [born EXCEPT ![id[w]] = clock]
  /\ UNCHANGED <<clock, up, crashes, mem, disk, now, removing, id, created>>

\* Put, up to the lock: it stamps the record.
Stamp(w) ==
  /\ Goto(w, "verified", "stamped")
  /\ created' = [created EXCEPT ![w] = clock]
  /\ UNCHANGED <<clock, up, crashes, mem, disk, now, removing, id, born>>

\* The locked part of Put.
PutMemory(w) ==
  /\ Goto(w, "stamped", "opening")
  /\ mem' = [mem EXCEPT ![id[w]] = created[w]]
  /\ UNCHANGED <<clock, up, crashes, disk, now, removing, id, created, born>>

\* persist: os.WriteFile opens the file, truncating it.
OpenFile(w) ==
  /\ Goto(w, "opening", "writing")
  /\ disk' = [disk EXCEPT ![id[w]] = Empty]
  /\ UNCHANGED <<clock, up, crashes, mem, now, removing, id, created, born>>

OpenFails(w) ==
  /\ Goto(w, "opening", "failed")
  /\ UNCHANGED <<clock, up, crashes, mem, disk, now, removing, id, created, born>>

\* What a write leaves in a file: nothing if the file was removed meanwhile;
\* a mixture is possible if another writer wrote it meanwhile.
Written(w) ==
  CASE disk[id[w]] = Gone  -> {Gone}
    [] disk[id[w]] = Empty -> {created[w]}
    [] OTHER               -> {created[w], Torn}

\* persist succeeds, Put returns, the run completes and hands out its link.
WriteFile(w) ==
  /\ Goto(w, "writing", "done")
  /\ \E f \in Written(w) : disk' = [disk EXCEPT ![id[w]] = f]
  /\ UNCHANGED <<clock, up, crashes, mem, now, removing, id, created, born>>

\* persist fails half way: the run fails, its record stays in memory.
WriteFails(w) ==
  /\ Goto(w, "writing", "failed")
  /\ \/ disk' = disk
     \/ disk[id[w]] # Gone /\ disk' = [disk EXCEPT ![id[w]] = Torn]
  /\ UNCHANGED <<clock, up, crashes, mem, now, removing, id, created, born>>

----------------------------------------------------------------------------
(* The cleanup job: one goroutine, so a sweep starts when the last one is done. *)

\* Faulty: a record is dropped as soon as it reaches the retention.
ExpiredAtRetention(t) == t <= now - Keep

\* Faulty: the comparison is the wrong way round.
ExpiredReversed(t) == t > now - Keep

Expired(t) == t < now - Keep

\* Cleanup, up to the lock: the cutoff is taken from this reading of the clock.
BeginSweep ==
  /\ up /\ now = Gone /\ removing = {}
  /\ now' = clock
  /\ UNCHANGED <<clock, up, crashes, mem, disk, removing, writerVars>>

\* The locked part of Cleanup.
Sweep ==
  LET old == {i \in IDs : mem[i] # Gone /\ Expired(mem[i])}
  IN  /\ up /\ now # Gone /\ now' = Gone
      /\ mem' = [i \in IDs |-> IF i \in old THEN Gone ELSE mem[i]]
      /\ removing' = old
      /\ UNCHANGED <<clock, up, crashes, disk, writerVars>>

\* os.Remove, whose error is ignored.
Remove(i) ==
  /\ i \in removing
  /\ removing' = removing \ {i}
  /\ \/ disk' = [disk EXCEPT ![i] = Gone]
     \/ disk' = disk
  /\ UNCHANGED <<clock, up, crashes, mem, now, writerVars>>

----------------------------------------------------------------------------
(* The process. *)

\* Memory and goroutines are lost; what was written to a file stays.
Crash ==
  /\ up /\ crashes < MaxCrashes
  /\ up' = FALSE /\ crashes' = crashes + 1
  /\ mem' = [i \in IDs |-> Gone]
  /\ now' = Gone /\ removing' = {}
  /\ pc' = [w \in Writers |-> IF pc[w] \in InFlight THEN "lost" ELSE pc[w]]
  /\ UNCHANGED <<clock, disk, id, created, born>>

\* A file that does not parse is skipped.
Loaded(f) == IF f \in Records THEN f ELSE Gone

\* loadFromDisk.
Restart ==
  /\ ~ up /\ up' = TRUE
  /\ mem' = [i \in IDs |-> Loaded(disk[i])]
  /\ UNCHANGED <<clock, crashes, disk, now, removing, writerVars>>

Tick ==
  /\ clock < Horizon
  /\ \A w \in Writers : pc[w] \in InFlight => clock - born[id[w]] < Lag
  /\ clock' = clock + 1
  /\ UNCHANGED <<up, crashes, mem, disk, now, removing, writerVars>>

Put(w) ==
  \/ Stamp(w) \/ PutMemory(w)
  \/ OpenFile(w) \/ OpenFails(w) \/ WriteFile(w) \/ WriteFails(w)

Next ==
  \/ \E w \in Writers : Verify(w) \/ Put(w)
  \/ BeginSweep \/ Sweep \/ \E i \in IDs : Remove(i)
  \/ Crash \/ Restart \/ Tick

\* The ticker of cleanupLoop keeps firing, the job it starts goes on, and a
\* process that died is started again.
Fairness ==
  /\ WF_vars(BeginSweep) /\ WF_vars(Sweep)
  /\ WF_vars(\E i \in IDs : Remove(i)) /\ WF_vars(Restart)

Spec == Init /\ [][Next]_vars /\ Fairness

----------------------------------------------------------------------------
(* Properties. *)

\* The types; in particular memory only ever holds whole records.
TypeOK ==
  /\ clock \in 0..Horizon /\ up \in BOOLEAN /\ crashes \in 0..MaxCrashes
  /\ mem \in [IDs -> Records \cup {Gone}]
  /\ disk \in [IDs -> Records \cup {Gone, Empty, Torn}]
  /\ now \in Records \cup {Gone} /\ removing \subseteq IDs
  /\ pc \in [Writers -> InFlight \cup {"idle", "done", "failed", "lost"}]
  /\ id \in [Writers -> IDs] /\ created \in [Writers -> Records]
  /\ born \in [IDs -> Records \cup {Gone}]

ToKeep(t) == clock - t <= Keep

Current(w) == pc[w] = "done" /\ ToKeep(created[w])

Alone(w) == \A v \in Writers \ {w} : pc[v] # "idle" => id[v] # id[w]

\* Share links survive a restart (receipts.go 39-41), wherever the process
\* crashed and whatever the cleanup job was doing: the link of a completed run
\* whose receipt is its own is served until it is older than the retention.
SoleLinkSurvives ==
  \A w \in Writers : up /\ Current(w) /\ Alone(w) => mem[id[w]] = created[w]

\* The same without the proviso, as the comment has it: "persists completed
\* runs in memory and, when a directory is configured, on disk so share links
\* survive a restart" (receipts.go 39-40).
LinkSurvives ==
  \A w \in Writers : up /\ Current(w) => mem[id[w]] # Gone

\* "Cleanup removes runs older than maxAge (both in memory and on disk)" (receipts.go
\* 118), up to the length of a Put: of two runs with one receipt, the one that takes
\* the lock first, or writes its file first, need not be the one that read the clock
\* first (88-101), so that the file may be younger than the record in memory by which
\* the sweep judges.  It is not taken earlier than that, nor while it is being
\* written, although it is removed without the lock (133-137).
RemovesNoneYoungerThanAPut ==
  \A i \in removing : disk[i] \in Records => clock - disk[i] > Keep - Lag

\* "Daily cleanup job prunes old share-linked runs" (README.md 175): in the end,
\* however often the process crashed and whatever it loaded again, no link is
\* served that is older than the retention.
NoStaleLinkInTheEnd == <>[](\A i \in IDs : mem[i] = Gone \/ ToKeep(mem[i]))
=============================================================================
