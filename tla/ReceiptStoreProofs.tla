-------------------------- MODULE ReceiptStoreProofs --------------------------
(* The cleanup job and the share links, for all IDs, writers, retentions, clocks
   and numbers of crashes that satisfy StoreAssumption.

   The argument is about time.  All runs with the same receipt verified it at
   the same time, their Put ends within Lag of it, and Lag < Keep: so once a
   record has expired, nobody is writing its file any more and nobody will
   (InTime, SweptAreOld).  What is in memory and what is in the file may have been
   stamped in any order, but both at most Lag after the verification (Timed), so
   the file is at most that much younger than the expired record.          *)
EXTENDS ReceiptStore, TLAPS

\* The times of the records with one ID.
Times(i) ==
  /\ born[i] <= clock
  /\ mem[i] # Gone => born[i] # Gone /\ born[i] <= mem[i]
  /\ disk[i] \in Records => /\ born[i] # Gone
                            /\ born[i] <= disk[i] /\ disk[i] <= born[i] + Lag

\* And Cleanup's reading of the clock, which may be old.
Timed == (\A i \in IDs : Times(i)) /\ now <= clock

\* A Put that is under way is not late.
Punctual(w) ==
  /\ pc[w] \in InFlight => /\ up /\ born[id[w]] # Gone
                           /\ clock - born[id[w]] <= Lag
  /\ pc[w] \in {"stamped", "opening", "writing"} =>
       born[id[w]] <= created[w] /\ created[w] <= clock

InTime == \A w \in Writers : Punctual(w)

\* What the cleanup job is about to remove.
IsOld(i) == born[i] # Gone /\ born[i] < clock - Keep

SweptAreOld == \A i \in removing : IsOld(i)

\* The record of a writer that shares its ID with nobody.
Holds(w) ==
  /\ pc[w] \in {"opening", "writing"} => mem[id[w]] = created[w]
  /\ pc[w] = "writing" => disk[id[w]] = Empty
  /\ Current(w) => /\ disk[id[w]] = created[w] /\ id[w] \notin removing
                   /\ up => mem[id[w]] = created[w]

OwnHolds == \A w \in Writers : Alone(w) => Holds(w)

IInv == TypeOK /\ Timed /\ InTime /\ SweptAreOld

SInv == IInv /\ OwnHolds

----------------------------------------------------------------------------
\* The invariant holds of an empty store.
LEMMA InitIInv == Init => SInv
<1> SUFFICES ASSUME Init PROVE SInv
  OBVIOUS
<1>1. TypeOK
  BY StoreAssumption DEF Init, TypeOK, Records
<1>2. Timed /\ InTime /\ SweptAreOld /\ OwnHolds
  BY DEF Init, Timed, Times, InTime, Punctual, SweptAreOld, OwnHolds, Holds, Current, InFlight,
     Records, Gone
<1> QED
  BY <1>1, <1>2 DEF SInv, IInv

\* The types are kept.
LEMMA TypeSteps == TypeOK /\ [Next]_vars => TypeOK'
<1> SUFFICES ASSUME TypeOK, [Next]_vars PROVE TypeOK'
  OBVIOUS
<1> USE DEF TypeOK, InFlight, Goto
<1>0. Horizon \in Nat /\ MaxCrashes \in Nat
  BY StoreAssumption
<1>1. ASSUME NEW w \in Writers, Verify(w) PROVE TypeOK'
  BY <1>0, <1>1 DEF Verify, Records
<1>2. ASSUME NEW w \in Writers, Stamp(w) \/ PutMemory(w) PROVE TypeOK'
  BY <1>0, <1>2 DEF Stamp, PutMemory, Records
<1>3. ASSUME NEW w \in Writers, OpenFile(w) \/ OpenFails(w) PROVE TypeOK'
  BY <1>0, <1>3 DEF OpenFile, OpenFails
<1>4. ASSUME NEW w \in Writers, WriteFile(w) PROVE TypeOK'
  <2>1. PICK f \in Written(w) : disk' = [disk EXCEPT ![id[w]] = f]
    BY <1>4 DEF WriteFile
  <2>2. f \in Records \cup {Gone, Empty, Torn}
    BY DEF Written
  <2> QED
    BY <1>0, <1>4, <2>1, <2>2 DEF WriteFile
<1>5. ASSUME NEW w \in Writers, WriteFails(w) PROVE TypeOK'
  BY <1>0, <1>5 DEF WriteFails
<1>6. CASE BeginSweep \/ Sweep
  <2>1. CASE BeginSweep
    BY <1>0, <2>1 DEF BeginSweep, writerVars, Records
  <2>2. CASE Sweep
    BY <1>0, <2>2 DEF Sweep, writerVars
  <2> QED
    BY <1>6, <2>1, <2>2
<1>7. ASSUME NEW i \in IDs, Remove(i) PROVE TypeOK'
  BY <1>0, <1>7 DEF Remove, writerVars
<1>8. CASE Crash
  <2>1. pc' \in [Writers -> InFlight \cup {"idle", "done", "failed", "lost"}]
    BY <1>8 DEF Crash
  <2>2. crashes' \in 0..MaxCrashes
    BY <1>0, <1>8 DEF Crash
  <2>3. /\ up' \in BOOLEAN /\ now' \in Records \cup {Gone}
        /\ removing' \subseteq IDs /\ mem' \in [IDs -> Records \cup {Gone}]
    BY <1>8 DEF Crash
  <2> QED
    BY <1>8, <2>1, <2>2, <2>3 DEF Crash
<1>9. CASE Restart
  BY <1>0, <1>9 DEF Restart, Loaded, writerVars
<1>10. CASE Tick
  BY <1>0, <1>10 DEF Tick, writerVars
<1>11. CASE UNCHANGED vars
  BY <1>11 DEF vars, writerVars
<1> QED
  BY <1>1, <1>2, <1>3, <1>4, <1>5, <1>6, <1>7, <1>8, <1>9, <1>10, <1>11 DEF Next, Put

\* What is known of the times as numbers.
LEMMA Clocks ==
  ASSUME TypeOK
  PROVE  /\ clock \in Int /\ now \in Int /\ Keep \in Nat /\ Lag \in Nat /\ Lag < Keep
         /\ \A i \in IDs : born[i] \in Int /\ mem[i] \in Int /\ disk[i] \in Int
         /\ \A w \in Writers : created[w] \in Int /\ id[w] \in IDs
         /\ clock \in Records /\ Gone \notin Records /\ Gone <= clock
  BY StoreAssumption DEF TypeOK, Records, Gone, Empty, Torn

\* The files of swept IDs: nobody writes one.
LEMMA NotInFlight ==
  ASSUME IInv, NEW w \in Writers, pc[w] \in InFlight
  PROVE  id[w] \notin removing /\ born[id[w]] # Gone /\ born[id[w]] >= clock - Keep
<1>1. /\ clock - born[id[w]] <= Lag /\ born[id[w]] # Gone
      /\ id[w] \in removing => born[id[w]] < clock - Keep
  BY DEF IInv, InTime, Punctual, SweptAreOld, IsOld
<1> QED
  BY <1>1, Clocks DEF IInv

\* Each step keeps the times in order and what is swept expired.
LEMMA TimeSteps ==
  ASSUME IInv, Next, TypeOK'
  PROVE  Timed' /\ InTime' /\ SweptAreOld'
<1>0. TypeOK /\ Timed /\ InTime /\ SweptAreOld
  BY DEF IInv
<1>a. /\ clock \in Int /\ now \in Int /\ Keep \in Nat /\ Lag \in Nat /\ Lag < Keep
      /\ \A i \in IDs : born[i] \in Int /\ mem[i] \in Int /\ disk[i] \in Int
      /\ \A w \in Writers : created[w] \in Int /\ id[w] \in IDs
      /\ clock \in Records /\ Gone \notin Records /\ Gone <= clock
  BY <1>0, Clocks
<1> USE DEF Timed, Times, InTime, Punctual, SweptAreOld, IsOld, InFlight
<1>1. ASSUME NEW w \in Writers, Verify(w) PROVE Timed' /\ InTime' /\ SweptAreOld'
  BY <1>0, <1>a, <1>1 DEF TypeOK, Verify, Goto
<1>2. ASSUME NEW w \in Writers, Stamp(w) PROVE Timed' /\ InTime' /\ SweptAreOld'
  <2>1. /\ pc[w] = "verified" /\ id[w] \in IDs
        /\ born[id[w]] # Gone /\ born[id[w]] <= clock
    BY <1>0, <1>a, <1>2 DEF Stamp, Goto
  <2>2. /\ UNCHANGED <<clock, up, mem, disk, now, removing, id, born>>
        /\ \A v \in Writers : /\ pc'[v] = IF v = w THEN "stamped" ELSE pc[v]
                              /\ created'[v] = IF v = w THEN clock ELSE created[v]
    BY <1>0, <1>2 DEF TypeOK, Stamp, Goto
  <2>3. Timed' /\ SweptAreOld'
    BY <1>0, <2>2
  <2>4. InTime'
    BY <1>0, <1>a, <2>1, <2>2
  <2> QED
    BY <2>3, <2>4
<1>11. ASSUME NEW w \in Writers, PutMemory(w) PROVE Timed' /\ InTime' /\ SweptAreOld'
  <2>1. /\ pc[w] = "stamped" /\ id[w] \in IDs
        /\ born[id[w]] # Gone /\ born[id[w]] <= created[w]
    BY <1>0, <1>a, <1>11 DEF PutMemory, Goto
  <2>2. /\ UNCHANGED <<clock, up, disk, now, removing, id, created, born>>
        /\ \A i \in IDs : mem'[i] = IF i = id[w] THEN created[w] ELSE mem[i]
        /\ \A v \in Writers : pc'[v] = IF v = w THEN "opening" ELSE pc[v]
    BY <1>0, <1>11 DEF TypeOK, PutMemory, Goto
  <2>3. Timed'
    BY <1>0, <1>a, <2>1, <2>2
  <2>4. InTime'
    BY <1>0, <1>a, <2>1, <2>2
  <2>5. SweptAreOld'
    BY <1>0, <2>2
  <2> QED
    BY <2>3, <2>4, <2>5
<1>3. ASSUME NEW w \in Writers, OpenFile(w) \/ OpenFails(w) PROVE Timed' /\ InTime' /\ SweptAreOld'
  <2>1. /\ UNCHANGED <<clock, up, mem, now, removing, id, born, created>>
        /\ \A i \in IDs : disk'[i] \in {disk[i], Empty}
        /\ \A v \in Writers : pc'[v] = pc[v] \/ (pc[v] = "opening" /\ pc'[v] \in {"writing", "failed"})
    BY <1>0, <1>3 DEF TypeOK, OpenFile, OpenFails, Goto
  <2>2. Empty \notin Records
    BY DEF Empty, Records
  <2>3. Timed'
    BY <1>0, <2>1, <2>2
  <2>4. InTime'
    BY <1>0, <2>1
  <2>5. SweptAreOld'
    BY <1>0, <2>1, <2>2 DEF TypeOK
  <2> QED
    BY <2>3, <2>4, <2>5
<1>4. ASSUME NEW w \in Writers, WriteFile(w) PROVE Timed' /\ InTime' /\ SweptAreOld'
  <2>1. /\ pc[w] = "writing" /\ id[w] \in IDs /\ created[w] \in Records
        /\ born[id[w]] # Gone /\ born[id[w]] <= created[w]
        /\ created[w] <= born[id[w]] + Lag
    BY <1>0, <1>a, <1>4 DEF TypeOK, WriteFile, Goto
  <2>2. /\ UNCHANGED <<clock, up, mem, now, removing, id, born, created>>
        /\ \A i \in IDs : \/ disk'[i] = disk[i]
                          \/ i = id[w] /\ disk'[i] \in {Gone, created[w], Torn}
        /\ \A v \in Writers : pc'[v] = IF v = w THEN "done" ELSE pc[v]
    BY <1>0, <1>4 DEF TypeOK, WriteFile, Written, Goto
  <2>3. Gone \notin Records /\ Torn \notin Records
    BY DEF Gone, Torn, Records
  <2>4. Timed'
    BY <1>0, <2>1, <2>2, <2>3
  <2>5. InTime'
    BY <1>0, <2>1, <2>2
  <2>6. id[w] \notin removing
    BY <2>1, NotInFlight
  <2>7. SweptAreOld'
    BY <1>0, <2>2, <2>6 DEF TypeOK
  <2> QED
    BY <2>4, <2>5, <2>7
<1>5. ASSUME NEW w \in Writers, WriteFails(w) PROVE Timed' /\ InTime' /\ SweptAreOld'
  <2>1. /\ UNCHANGED <<clock, up, mem, now, removing, id, born, created>>
        /\ \A i \in IDs : disk'[i] \in {disk[i], Torn}
        /\ \A v \in Writers : pc'[v] = IF v = w THEN "failed" ELSE pc[v]
    BY <1>0, <1>5 DEF TypeOK, WriteFails, Goto
  <2>2. Torn \notin Records
    BY DEF Torn, Records
  <2>3. Timed'
    BY <1>0, <2>1, <2>2
  <2>4. InTime'
    BY <1>0, <2>1
  <2>5. SweptAreOld'
    BY <1>0, <2>1, <2>2 DEF TypeOK
  <2> QED
    BY <2>3, <2>4, <2>5
<1>6. CASE BeginSweep \/ Sweep
  <2>1. CASE BeginSweep
    BY <1>0, <1>a, <2>1 DEF BeginSweep, writerVars
  <2>2. CASE Sweep
    <3>1. UNCHANGED <<clock, up, disk, writerVars>> /\ now' = Gone
      BY <2>2 DEF Sweep
    <3>2. \A i \in IDs : mem'[i] \in {mem[i], Gone}
      BY <1>0, <2>2 DEF Sweep
    <3>3. Timed' /\ InTime'
      BY <1>0, <1>a, <3>1, <3>2 DEF writerVars
    <3>4. ASSUME NEW i \in IDs, mem[i] # Gone, mem[i] < now - Keep PROVE IsOld(i)
      BY <1>0, <1>a, <3>4
    <3>5. \A i \in removing' : i \in IDs /\ mem[i] # Gone /\ mem[i] < now - Keep
      BY <2>2 DEF Sweep, Expired
    <3>6. SweptAreOld'
      BY <3>1, <3>4, <3>5 DEF writerVars
    <3> QED
      BY <3>3, <3>6
  <2> QED
    BY <1>6, <2>1, <2>2
<1>7. ASSUME NEW i \in IDs, Remove(i) PROVE Timed' /\ InTime' /\ SweptAreOld'
  BY <1>0, <1>a, <1>7 DEF TypeOK, Remove, writerVars
<1>8. CASE Crash
  <2>1. /\ UNCHANGED <<clock, disk, id, created, born>>
        /\ now' = Gone /\ removing' = {} /\ \A i \in IDs : mem'[i] = Gone
        /\ \A w \in Writers : pc'[w] \notin InFlight
    BY <1>0, <1>8 DEF TypeOK, Crash
  <2>2. Timed'
    BY <1>0, <1>a, <2>1
  <2> QED
    BY <2>1, <2>2
<1>9. CASE Restart
  BY <1>0, <1>a, <1>9 DEF TypeOK, Restart, Loaded, writerVars
<1>10. CASE Tick
  BY <1>0, <1>a, <1>10 DEF TypeOK, Tick, writerVars
<1> QED
  BY <1>1, <1>2, <1>3, <1>4, <1>5, <1>6, <1>7, <1>8, <1>9, <1>10, <1>11 DEF Next, Put

\* A writer that has its ID to itself keeps what it has stored: the others do
\* not touch it, and the cleanup job only once it has expired.
LEMMA OwnSteps ==
  ASSUME SInv, Next, IInv'
  PROVE  OwnHolds'
<1>0. TypeOK /\ Timed /\ InTime /\ SweptAreOld /\ OwnHolds /\ TypeOK'
  BY DEF SInv, IInv
<1>a. /\ clock \in Int /\ now \in Int /\ Keep \in Nat /\ Lag \in Nat /\ Lag < Keep
      /\ \A i \in IDs : born[i] \in Int /\ mem[i] \in Int /\ disk[i] \in Int
      /\ \A w \in Writers : created[w] \in Int /\ id[w] \in IDs
      /\ clock \in Records /\ Gone \notin Records /\ Gone <= clock
  BY <1>0, Clocks
<1>b. /\ \A w \in Writers : created[w] \in Records
      /\ Empty \notin Records /\ Empty # Gone
  BY <1>0 DEF TypeOK, Empty, Gone, Records
<1>c. ASSUME NEW w \in Writers, Alone(w) PROVE Holds(w)
  BY <1>0, <1>c DEF OwnHolds
<1>d. ASSUME NEW w \in Writers, pc[w] \in {"opening", "writing"}
      PROVE  id[w] \notin removing /\ created[w] >= clock - Keep
  <2>1. /\ born[id[w]] <= created[w]
        /\ id[w] \notin removing /\ born[id[w]] >= clock - Keep
    BY <1>0, <1>d, NotInFlight DEF SInv, InTime, Punctual, InFlight
  <2> QED
    BY <2>1, <1>a
<1>1. ASSUME NEW w \in Writers, Verify(w) PROVE OwnHolds'
  <2>1. /\ UNCHANGED <<clock, up, mem, disk, removing, id, created>>
        /\ pc[w] = "idle"
        /\ \A v \in Writers : pc'[v] = IF v = w THEN "verified" ELSE pc[v]
    BY <1>0, <1>1 DEF TypeOK, Verify, Goto
  <2>2. ASSUME NEW v \in Writers, Alone(v)', v # w PROVE Alone(v)
    BY <2>1, <2>2 DEF Alone
  <2> QED
    BY <1>c, <2>1, <2>2 DEF OwnHolds, Holds, Current, ToKeep
<1>2. ASSUME NEW w \in Writers, Put(w) PROVE OwnHolds'
  <2>1. /\ UNCHANGED <<clock, up, removing, id>>
        /\ pc[w] # "idle" /\ pc'[w] # "idle"
        /\ \A v \in Writers \ {w} : pc'[v] = pc[v] /\ created'[v] = created[v]
        /\ \A i \in IDs \ {id[w]} : mem'[i] = mem[i] /\ disk'[i] = disk[i]
    BY <1>0, <1>2 DEF TypeOK, Put, Stamp, PutMemory, OpenFile, OpenFails, WriteFile, WriteFails, Goto
  <2>2. ASSUME NEW v \in Writers, Alone(v)' PROVE Alone(v)
    BY <2>1, <2>2 DEF Alone
  <2>3. ASSUME NEW v \in Writers \ {w}, Alone(v)' PROVE Holds(v)'
    <3>1. id[v] # id[w]
      BY <2>1, <2>3 DEF Alone
    <3> QED
      BY <1>a, <1>c, <2>1, <2>2, <2>3, <3>1 DEF Holds, Current, ToKeep
  <2>4. ASSUME Alone(w)' PROVE Holds(w)'
    <3>1. Holds(w)
      BY <1>c, <2>2, <2>4
    <3>6. CASE Stamp(w)
      BY <1>0, <1>a, <3>6 DEF TypeOK, Stamp, Goto, Holds, Current
    <3>2. CASE PutMemory(w)
      BY <1>0, <1>a, <3>2 DEF TypeOK, PutMemory, Goto, Holds, Current
    <3>3. CASE OpenFile(w) \/ OpenFails(w)
      BY <1>0, <1>a, <3>1, <3>3 DEF TypeOK, OpenFile, OpenFails, Goto, Holds, Current
    <3>4. CASE WriteFile(w)
      <4>1. Written(w) = {created[w]}
        BY <1>b, <3>1, <3>4 DEF WriteFile, Goto, Holds, Written
      <4> QED
        BY <1>0, <1>a, <1>d, <3>1, <3>4, <4>1 DEF TypeOK, WriteFile, Goto, Holds, Current
    <3>5. CASE WriteFails(w)
      BY <1>0, <1>a, <3>1, <3>5 DEF TypeOK, WriteFails, Goto, Holds, Current
    <3> QED
      BY <1>2, <3>2, <3>3, <3>4, <3>5, <3>6 DEF Put
  <2> QED
    BY <2>3, <2>4 DEF OwnHolds
<1>8. CASE BeginSweep
  <2>1. ASSUME NEW w \in Writers, Alone(w)' PROVE Holds(w)'
    <3>1. Holds(w) /\ UNCHANGED <<clock, up, mem, disk, removing, pc, id, created>>
      BY <1>8, <1>c, <2>1 DEF BeginSweep, writerVars, Alone
    <3> QED
      BY <3>1 DEF Holds, Current, ToKeep
  <2> QED
    BY <2>1 DEF OwnHolds
<1>3. CASE Sweep
  <2>1. ASSUME NEW w \in Writers, Alone(w)' PROVE Holds(w)'
    <3>1. Holds(w) /\ UNCHANGED <<clock, up, disk, pc, id, created>>
      BY <1>3, <1>c, <2>1 DEF Sweep, writerVars, Alone
    <3>2. mem[id[w]] = created[w] /\ created[w] >= clock - Keep => mem'[id[w]] = created[w]
      BY <1>0, <1>a, <1>3 DEF Sweep, Expired, Timed
    <3>3. Current(w) => created[w] >= clock - Keep
      BY <1>a DEF Current, ToKeep
    <3>4. mem[id[w]] = created[w] /\ created[w] >= clock - Keep => id[w] \notin removing'
      BY <1>0, <1>a, <1>3 DEF Sweep, Expired, Timed
    <3>5. Current(w) => up
      BY <1>3 DEF Sweep
    <3> QED
      BY <1>d, <3>1, <3>2, <3>3, <3>4, <3>5 DEF Holds, Current, ToKeep
  <2> QED
    BY <2>1 DEF OwnHolds
<1>4. ASSUME NEW i \in IDs, Remove(i) PROVE OwnHolds'
  <2>1. ASSUME NEW w \in Writers, Alone(w)' PROVE Holds(w)'
    <3>1. /\ Holds(w) /\ UNCHANGED <<clock, up, mem, pc, id, created>>
          /\ i \in removing /\ disk'[id[w]] \in {disk[id[w]], IF i = id[w] THEN Gone ELSE disk[id[w]]}
      BY <1>0, <1>4, <1>c, <2>1 DEF TypeOK, Remove, writerVars, Alone
    <3>2. Current(w) => i # id[w] /\ id[w] \notin removing'
      BY <1>4, <3>1 DEF Remove, Holds
    <3>3. pc[w] = "writing" => i # id[w]
      BY <1>d, <3>1
    <3> QED
      BY <3>1, <3>2, <3>3 DEF Holds, Current, ToKeep
  <2> QED
    BY <2>1 DEF OwnHolds
<1>5. CASE Crash
  <2>1. ASSUME NEW w \in Writers, Alone(w)' PROVE Holds(w)'
    <3>1. /\ UNCHANGED <<clock, disk, id, created>> /\ up' = FALSE
          /\ \A v \in Writers : pc'[v] = IF pc[v] \in InFlight THEN "lost" ELSE pc[v]
          /\ removing' = {}
      BY <1>0, <1>5 DEF TypeOK, Crash
    <3>2. Holds(w)
      BY <1>c, <2>1, <3>1 DEF Alone
    <3> QED
      BY <3>1, <3>2 DEF Holds, Current, ToKeep, InFlight
  <2> QED
    BY <2>1 DEF OwnHolds
<1>6. CASE Restart
  <2>1. ASSUME NEW w \in Writers, Alone(w)' PROVE Holds(w)'
    <3>1. /\ UNCHANGED <<clock, disk, removing, pc, id, created>> /\ ~ up
          /\ mem'[id[w]] = Loaded(disk[id[w]])
      BY <1>a, <1>6 DEF Restart, writerVars
    <3>2. Holds(w) /\ pc[w] \notin InFlight
      BY <1>0, <1>c, <2>1, <3>1 DEF Alone, InTime, Punctual
    <3> QED
      BY <1>b, <3>1, <3>2 DEF Holds, Current, ToKeep, InFlight, Loaded
  <2> QED
    BY <2>1 DEF OwnHolds
<1>7. CASE Tick
  <2>1. ASSUME NEW w \in Writers, Alone(w)' PROVE Holds(w)'
    <3>1. UNCHANGED <<up, mem, disk, removing, pc, id, created>> /\ clock' = clock + 1
      BY <1>7 DEF Tick, writerVars
    <3>2. Holds(w)
      BY <1>c, <2>1, <3>1 DEF Alone
    <3>3. Current(w)' => Current(w)
      BY <1>a, <3>1 DEF Current, ToKeep
    <3> QED
      BY <3>1, <3>2, <3>3 DEF Holds
  <2> QED
    BY <2>1 DEF OwnHolds
<1> QED
  BY <1>1, <1>2, <1>3, <1>4, <1>5, <1>6, <1>7, <1>8 DEF Next

\* Every step keeps the invariant.
LEMMA StoreSteps == SInv /\ [Next]_vars => SInv'
<1> SUFFICES ASSUME SInv, [Next]_vars PROVE SInv'
  OBVIOUS
<1>1. TypeOK'
  BY TypeSteps DEF SInv, IInv
<1>2. CASE Next
  <2>1. IInv'
    BY <1>1, <1>2, TimeSteps DEF SInv, IInv
  <2> QED
    BY <1>2, <2>1, OwnSteps DEF SInv
<1>3. CASE UNCHANGED vars
  BY <1>1, <1>3 DEF SInv, IInv, vars, writerVars, Timed, Times, InTime, Punctual, SweptAreOld,
     IsOld, OwnHolds, Alone, Holds, Current, ToKeep
<1> QED
  BY <1>2, <1>3

\* So it holds throughout.
LEMMA StoreInvariance == Spec => []SInv
<1>1. Init => SInv
  BY InitIInv
<1>2. SInv /\ [Next]_vars => SInv'
  BY StoreSteps
<1> QED
  BY <1>1, <1>2, PTL DEF Spec

----------------------------------------------------------------------------
\* The types: memory only ever holds whole records, whatever a crash left on
\* disk (loadFromDisk skips a file that does not parse).
THEOREM StoreTypes == Spec => []TypeOK
<1>1. SInv => TypeOK
  BY DEF SInv, IInv
<1> QED
  BY <1>1, StoreInvariance, PTL

\* Cleanup, which removes files without the lock, never removes one that is being
\* written, although a Put may have begun meanwhile, nor one that is younger than
\* the retention by more than the length of a Put.
THEOREM CleanupRemovesNoneYoung == Spec => []RemovesNoneYoungerThanAPut
<1>1. SInv => RemovesNoneYoungerThanAPut
  <2> SUFFICES ASSUME SInv, NEW i \in removing, disk[i] \in Records
               PROVE  clock - disk[i] > Keep - Lag
    BY DEF RemovesNoneYoungerThanAPut
  <2>1. i \in IDs /\ born[i] < clock - Keep /\ disk[i] <= born[i] + Lag
    BY DEF SInv, IInv, TypeOK, SweptAreOld, IsOld, Timed, Times
  <2> QED
    BY <2>1, Clocks DEF SInv, IInv
<1> QED
  BY <1>1, StoreInvariance, PTL

\* A share link whose run has its receipt to itself survives every crash and
\* restart, and every sweep, until it is older than the retention.
THEOREM SoleLinksSurvive == Spec => []SoleLinkSurvives
<1>1. SInv => SoleLinkSurvives
  BY DEF SInv, OwnHolds, Holds, SoleLinkSurvives
<1> QED
  BY <1>1, StoreInvariance, PTL
=============================================================================
