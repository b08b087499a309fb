------------------------ MODULE MigrationApplyProofs ------------------------
(***************************************************************************)
(* What holds of ApplyMigrations for every number of runners, versions,    *)
(* statements and calls: in all circumstances, when one call runs at a     *)
(* time, and when many run at the same time.                               *)
(***************************************************************************)
EXTENDS MigrationApply, MigrationTargetsProofs

\* The calls of a behaviour are calls.
LEMMA RequestType ==
  ASSUME NEW q \in Requests
  PROVE  /\ q \in Request
         /\ q.registry \in SUBSET Versions
         /\ q.tx \in BOOLEAN
BY ConstantsAssumption DEF Request

\* The items of a migration that the statements of a plan name.
LEMMA ItemType ==
  ASSUME TypeOK, PlanInv, NEW r \in Runners, Executing(r)
  PROVE  /\ Mig(r) \in Versions
         /\ After(req[r], cur[r]) \in Versions \cup {Base}
         /\ Content(Mig(r)) \subseteq Items
         /\ stmt[r] <= Stmts[Mig(r)] => Item(r) \in Content(Mig(r))
<1>1. /\ req[r] \in Requests
      /\ Plannable(req[r], cur[r])
      /\ cur[r] # Goal(req[r])
      /\ stmt[r] \in Nat \ {0}
  BY DEF TypeOK, LocalTypeOK, PlanInv
<1>2. req[r] \in Request /\ req[r].registry \in SUBSET Versions
  BY <1>1, RequestType
<1>3. Mig(r) \in Versions /\ After(req[r], cur[r]) \in Versions \cup {Base}
  BY <1>1, <1>2, PlanStep DEF Mig
<1>4. Stmts[Mig(r)] \in Nat
  BY <1>3, ConstantsAssumption
<1>5. ASSUME stmt[r] <= Stmts[Mig(r)] PROVE Item(r) \in Content(Mig(r))
  BY <1>1, <1>4, <1>5 DEF Item, Content
<1> QED
  BY <1>3, <1>5 DEF Items

\* The parts of TypeOK and PlanInv that concern the runners' own state.
LEMMA FinishType ==
  ASSUME TypeOK, PlanInv, NEW r \in Runners, NEW o \in {"ok", "err", "crashed"},
         Finish(r, o)
  PROVE  /\ LocalTypeOK'
         /\ PlanInv'
<1>1. /\ NoPend \in [added   : SUBSET Items,
                     removed : SUBSET Items,
                     row     : Versions \cup {Base, NoRow}]
      /\ "idle" \in Calls
  BY DEF NoPend, Calls
<1>2. PlanInv'
  <2> SUFFICES ASSUME NEW s \in Runners, Executing(s)'
               PROVE  Plannable(req'[s], cur'[s]) /\ cur'[s] # Goal(req'[s])
    BY DEF PlanInv
  <2>1. s # r
    BY DEF Finish, Executing, TypeOK, LocalTypeOK
  <2>2. Executing(s) /\ cur'[s] = cur[s] /\ req'[s] = req[s]
    BY <2>1 DEF Finish, Executing, TypeOK, LocalTypeOK
  <2> QED
    BY <2>2 DEF PlanInv
<1> QED
  BY <1>1, <1>2 DEF Finish, TypeOK, LocalTypeOK

\* The same, for a call that goes on to its next migration.
LEMMA AdvanceType ==
  ASSUME TypeOK, PlanInv, NEW r \in Runners, NEW c \in Versions \cup {Base},
         Plannable(req[r], c), Advance(r, c)
  PROVE  /\ LocalTypeOK'
         /\ PlanInv'
<1>1. CASE Finish(r, "ok")
  BY <1>1, FinishType
<1>2. CASE ~ Finish(r, "ok")
  <2>1. /\ c # Goal(req[r])
        /\ pc' = [pc EXCEPT ![r] = "begin"]
        /\ outcome' = outcome
        /\ cur' = [cur EXCEPT ![r] = c]
        /\ stmt' = [stmt EXCEPT ![r] = 1]
        /\ pend' = [pend EXCEPT ![r] = NoPend]
        /\ req' = req
    BY <1>2 DEF Advance, GoTo
  <2>2. PlanInv'
    <3> SUFFICES ASSUME NEW s \in Runners, Executing(s)'
                 PROVE  Plannable(req'[s], cur'[s]) /\ cur'[s] # Goal(req'[s])
      BY DEF PlanInv
    <3>1. CASE s = r
      BY <2>1, <3>1 DEF TypeOK, LocalTypeOK
    <3>2. CASE s # r
      <4>1. Executing(s) /\ cur'[s] = cur[s] /\ req'[s] = req[s]
        BY <2>1, <3>2 DEF Executing, TypeOK, LocalTypeOK
      <4> QED
        BY <4>1 DEF PlanInv
    <3> QED
      BY <3>1, <3>2
  <2>3. /\ NoPend \in [added   : SUBSET Items,
                       removed : SUBSET Items,
                       row     : Versions \cup {Base, NoRow}]
        /\ "begin" \in Calls
    BY DEF NoPend, Calls
  <2> QED
    BY <2>1, <2>2, <2>3 DEF TypeOK, LocalTypeOK
<1> QED
  BY <1>1, <1>2

-----------------------------------------------------------------------------
(* Type correctness.                                                       *)

\* It holds before the first call.
LEMMA InitType == Init => TypeOK /\ PlanInv
<1> SUFFICES ASSUME Init PROVE TypeOK /\ PlanInv
  OBVIOUS
<1>1. (CHOOSE q \in Requests : TRUE) \in Requests
  BY ConstantsAssumption
<1>2. NoPend \in [added : SUBSET Items, removed : SUBSET Items,
                  row : Versions \cup {Base, NoRow}]
  BY DEF NoPend
<1>3. TypeOK
  <2>1. /\ pc \in [Runners -> Calls]
        /\ cur \in [Runners -> Versions \cup {Base}]
        /\ stmt \in [Runners -> Nat \ {0}]
        /\ outcome \in [Runners -> {"none", "ok", "err", "crashed"}]
    BY DEF Init, Calls
  <2>2. req \in [Runners -> Requests]
    BY <1>1, Zenon DEF Init
  <2>3. pend \in [Runners -> [added : SUBSET Items, removed : SUBSET Items,
                              row : Versions \cup {Base, NoRow}]]
    BY <1>2, Zenon DEF Init
  <2>4. table \in BOOLEAN /\ row \in Versions \cup {Base, NoRow}
        /\ effects \subseteq Items
    BY DEF Init
  <2>5. runs \in 0 .. MaxRuns
    <3>1. MaxRuns \in Nat
      BY ConstantsAssumption
    <3> QED
      BY <3>1 DEF Init
  <2> QED
    BY <2>1, <2>2, <2>3, <2>4, <2>5 DEF TypeOK, LocalTypeOK
<1>4. PlanInv
  BY DEF Init, PlanInv, Executing
<1> QED
  BY <1>3, <1>4

\* A step that leaves req, cur and the executing runners alone keeps PlanInv.
LEMMA PlanInvKept ==
  ASSUME TypeOK, PlanInv, req' = req, cur' = cur,
         \A r \in Runners : Executing(r)' => Executing(r)
  PROVE  PlanInv'
BY DEF PlanInv

\* It survives every database call of every runner.
LEMMA NextType == TypeOK /\ PlanInv /\ [Next]_vars => TypeOK' /\ PlanInv'
<1> SUFFICES ASSUME TypeOK, PlanInv, [Next]_vars
             PROVE  TypeOK' /\ PlanInv'
  OBVIOUS
<1> USE DEF TypeOK
<1>1. ASSUME NEW r \in Runners, Start(r) PROVE TypeOK' /\ PlanInv'
  <2>1. PICK q \in Requests : req' = [req EXCEPT ![r] = q]
    BY <1>1 DEF Start
  <2>2. LocalTypeOK'
    BY <1>1, <2>1 DEF Start, LocalTypeOK, Calls
  <2>3. runs' \in 0 .. MaxRuns
    BY <1>1, ConstantsAssumption DEF Start
  <2>4. PlanInv'
    BY <1>1, <2>1 DEF Start, PlanInv, Executing, LocalTypeOK
  <2> QED
    BY <1>1, <2>2, <2>3, <2>4 DEF Start, db
<1>2. ASSUME NEW r \in Runners, EnsureTable(r) PROVE TypeOK' /\ PlanInv'
  <2>1. PlanInv'
    BY <1>2, PlanInvKept DEF EnsureTable, GoTo, Executing, local, LocalTypeOK
  <2> QED
    BY <1>2, <2>1 DEF EnsureTable, GoTo, local, LocalTypeOK, Calls
<1>3. ASSUME NEW r \in Runners, EnsureRow(r) PROVE TypeOK' /\ PlanInv'
  <2>1. PlanInv'
    BY <1>3, PlanInvKept DEF EnsureRow, GoTo, Executing, local, LocalTypeOK
  <2> QED
    BY <1>3, <2>1 DEF EnsureRow, GoTo, db, local, LocalTypeOK, Calls
<1>4. ASSUME NEW r \in Runners, InsertRow(r) PROVE TypeOK' /\ PlanInv'
  <2>1. CASE row = NoRow
    <3>1. PlanInv'
      BY <1>4, <2>1, PlanInvKept DEF InsertRow, GoTo, Executing, local, LocalTypeOK
    <3> QED
      BY <1>4, <2>1, <3>1 DEF InsertRow, GoTo, local, LocalTypeOK, Calls
  <2>2. CASE row # NoRow
    BY <1>4, <2>2, FinishType DEF InsertRow
  <2> QED
    BY <2>1, <2>2
<1>5. ASSUME NEW r \in Runners, ReadVersion(r) PROVE TypeOK' /\ PlanInv'
  <2>1. Stored \in Versions \cup {Base}
    BY DEF Stored
  <2>2. LocalTypeOK' /\ PlanInv'
    BY <1>5, <2>1, FinishType, AdvanceType DEF ReadVersion
  <2> QED
    BY <1>5, <2>2 DEF ReadVersion, db
<1>6. ASSUME NEW r \in Runners, Begin(r) PROVE TypeOK' /\ PlanInv'
  <2>1. PlanInv'
    BY <1>6, PlanInvKept DEF Begin, GoTo, Executing, local, LocalTypeOK
  <2> QED
    BY <1>6, <2>1 DEF Begin, GoTo, db, local, LocalTypeOK, Calls
<1>7. ASSUME NEW r \in Runners, Exec(r) PROVE TypeOK' /\ PlanInv'
  <2> DEFINE up == req[r].direction = "up"
  <2>1. Item(r) \in Items
    BY <1>7, ItemType DEF Exec, Executing
  <2>2. CASE Finish(r, "err") /\ UNCHANGED effects
    BY <1>7, <2>2, FinishType DEF Exec
  <2>3. CASE ~ (Finish(r, "err") /\ UNCHANGED effects)
    <3>1. /\ stmt' = [stmt EXCEPT ![r] = @ + 1]
          /\ UNCHANGED <<pc, req, cur, outcome>>
          /\ UNCHANGED <<table, row, runs>>
      BY <1>7, <2>3 DEF Exec
    <3>2. PlanInv'
      BY <3>1, PlanInvKept DEF Executing
    <3>3. CASE req[r].tx
      <4>1. pend' = [pend EXCEPT ![r] = Held(@, Item(r), up)] /\ effects' = effects
        BY <1>7, <2>3, <3>3 DEF Exec
      <4>2. Held(pend[r], Item(r), up) \in [added   : SUBSET Items,
                                            removed : SUBSET Items,
                                            row     : Versions \cup {Base, NoRow}]
        BY <2>1 DEF Held, LocalTypeOK
      <4> QED
        BY <3>1, <3>2, <4>1, <4>2 DEF LocalTypeOK
    <3>4. CASE ~ req[r].tx
      <4>1. /\ effects' = IF up THEN effects \cup {Item(r)} ELSE effects \ {Item(r)}
            /\ pend' = pend
        BY <1>7, <2>3, <3>4 DEF Exec
      <4> QED
        BY <2>1, <3>1, <3>2, <4>1 DEF LocalTypeOK
    <3> QED
      BY <3>3, <3>4
  <2> QED
    BY <2>2, <2>3
<1>8. ASSUME NEW r \in Runners, WriteVersion(r) PROVE TypeOK' /\ PlanInv'
  <2> DEFINE after == After(req[r], cur[r])
  <2>1. after \in Versions \cup {Base} /\ Plannable(req[r], after)
    <3>1. req[r] \in Request /\ Plannable(req[r], cur[r]) /\ cur[r] # Goal(req[r])
      BY <1>8, RequestType DEF WriteVersion, Executing, PlanInv, LocalTypeOK
    <3> QED
      BY <1>8, <3>1, PlanStep, ItemType DEF WriteVersion, Executing
  <2>2. CASE req[r].tx
    <3>1. /\ pend' = [pend EXCEPT ![r].row = after]
          /\ GoTo(r, "commit")
          /\ UNCHANGED <<row, local, table, effects, runs>>
      BY <1>8, <2>2 DEF WriteVersion
    <3>2. PlanInv'
      BY <1>8, <3>1, PlanInvKept DEF WriteVersion, GoTo, Executing, local, LocalTypeOK
    <3> QED
      BY <2>1, <3>1, <3>2, ZenonT(40) DEF GoTo, local, LocalTypeOK, Calls
  <2>3. CASE ~ req[r].tx
    <3>1. /\ row' = after
          /\ Advance(r, after) \/ Finish(r, "err")
          /\ UNCHANGED <<table, effects, runs>>
      BY <1>8, <2>3 DEF WriteVersion
    <3>2. LocalTypeOK' /\ PlanInv'
      BY <2>1, <3>1, FinishType, AdvanceType
    <3> QED
      BY <2>1, <3>1, <3>2
  <2> QED
    BY <2>2, <2>3
<1>9. ASSUME NEW r \in Runners, Commit(r) PROVE TypeOK' /\ PlanInv'
  <2> DEFINE after == After(req[r], cur[r])
  <2>1. after \in Versions \cup {Base} /\ Plannable(req[r], after)
    <3>1. req[r] \in Request /\ Plannable(req[r], cur[r]) /\ cur[r] # Goal(req[r])
      BY <1>9, RequestType DEF Commit, Executing, PlanInv, LocalTypeOK
    <3> QED
      BY <1>9, <3>1, PlanStep, ItemType DEF Commit, Executing
  <2>2. LocalTypeOK' /\ PlanInv'
    BY <1>9, <2>1, FinishType, AdvanceType DEF Commit
  <2>3. effects' \subseteq Items /\ row' \in Versions \cup {Base, NoRow}
    BY <1>9 DEF Commit, View, LocalTypeOK
  <2> QED
    BY <1>9, <2>2, <2>3 DEF Commit
<1>10. ASSUME NEW r \in Runners, Fail(r) \/ Crash(r) PROVE TypeOK' /\ PlanInv'
  BY <1>10, FinishType DEF Fail, Crash, db
<1>11. CASE Done \/ UNCHANGED vars
  BY <1>11 DEF Done, vars, LocalTypeOK, PlanInv, Executing
<1> QED
  BY <1>1, <1>2, <1>3, <1>4, <1>5, <1>6, <1>7, <1>8, <1>9, <1>10, <1>11 DEF Next, Step

-----------------------------------------------------------------------------
(* What a step of one runner does to the others, and how a call ends or    *)
(* goes on.                                                                *)

Acts(r) == Start(r) \/ Step(r) \/ Fail(r) \/ Crash(r)

\* No runner touches what another one keeps to itself.
LEMMA OthersKept ==
  ASSUME TypeOK, NEW r \in Runners, Acts(r), NEW s \in Runners, s # r
  PROVE  /\ pc'[s] = pc[s] /\ req'[s] = req[s] /\ cur'[s] = cur[s]
         /\ stmt'[s] = stmt[s] /\ pend'[s] = pend[s] /\ outcome'[s] = outcome[s]
         /\ Executing(s)' = Executing(s) /\ InMigration(s)' = InMigration(s)
         /\ Mig(s)' = Mig(s) /\ Moved(s)' = Moved(s)
<1> USE DEF TypeOK, LocalTypeOK
<1> DEFINE Kept == /\ pc'[s] = pc[s] /\ req'[s] = req[s] /\ cur'[s] = cur[s]
                   /\ stmt'[s] = stmt[s] /\ pend'[s] = pend[s]
                   /\ outcome'[s] = outcome[s]
<1> SUFFICES Kept
  BY DEF Executing, InMigration, Mig, Moved
<1>1. ASSUME NEW o, Finish(r, o) PROVE Kept
  BY <1>1 DEF Finish
<1>2. ASSUME NEW c, Advance(r, c) PROVE Kept
  BY <1>1, <1>2 DEF Advance, GoTo
<1>3. CASE Start(r)
  <2>1. PICK q \in Requests : req' = [req EXCEPT ![r] = q]
    BY <1>3 DEF Start
  <2> QED
    BY <1>3, <2>1 DEF Start
<1>4. CASE EnsureTable(r) \/ EnsureRow(r) \/ Begin(r)
  BY <1>4 DEF EnsureTable, EnsureRow, Begin, GoTo, db, local
<1>5. CASE InsertRow(r)
  BY <1>1, <1>5 DEF InsertRow, GoTo, local
<1>6. CASE ReadVersion(r)
  BY <1>1, <1>2, <1>6 DEF ReadVersion
<1>7. CASE Exec(r)
  <2>1. CASE Finish(r, "err")
    BY <1>1, <2>1
  <2>2. CASE ~ Finish(r, "err")
    <3>1. /\ stmt' = [stmt EXCEPT ![r] = @ + 1]
          /\ UNCHANGED <<pc, req, cur, outcome>>
          /\ pend' = pend \/ \E p : pend' = [pend EXCEPT ![r] = p]
      BY <1>7, <2>2 DEF Exec
    <3> QED
      BY <3>1
  <2> QED
    BY <2>1, <2>2
<1>8. CASE WriteVersion(r)
  BY <1>1, <1>2, <1>8 DEF WriteVersion, GoTo, local
<1>9. CASE Commit(r)
  BY <1>1, <1>2, <1>9 DEF Commit
<1>10. CASE Fail(r) \/ Crash(r)
  BY <1>1, <1>10 DEF Fail, Crash
<1> QED
  BY <1>3, <1>4, <1>5, <1>6, <1>7, <1>8, <1>9, <1>10 DEF Acts, Step

\* A call that ends holds nothing any more.
LEMMA Ended ==
  ASSUME TypeOK, NEW r \in Runners, NEW o, Finish(r, o)
  PROVE  /\ pc'[r] = "idle" /\ pend'[r] = NoPend /\ outcome'[r] = o
         /\ req' = req
BY DEF Finish, TypeOK, LocalTypeOK

\* A call that has reached c is over when c is its target, and otherwise
\* starts afresh from c.
LEMMA Advanced ==
  ASSUME TypeOK, NEW r \in Runners, NEW c, Advance(r, c)
  PROVE  /\ pc'[r] \in {"idle", "begin"} /\ pend'[r] = NoPend
         /\ req' = req
         /\ pc'[r] = "idle" => c = Goal(req[r])
         /\ pc'[r] = "begin" => stmt'[r] = 1 /\ cur'[r] = c
BY Ended DEF Advance, GoTo, TypeOK, LocalTypeOK

-----------------------------------------------------------------------------
(* What open transactions hold back.                                       *)

\* It is enough to look at the runner that acts.
LEMMA HeldByOthers ==
  ASSUME TypeOK, PendInv, NEW r \in Runners, Acts(r), HeldBack(r)'
  PROVE  PendInv'
<1> SUFFICES ASSUME NEW s \in Runners, s # r PROVE HeldBack(s)'
  BY DEF PendInv
<1>1. HeldBack(s)
  BY DEF PendInv
<1> QED
  BY <1>1, OthersKept DEF HeldBack

\* Outside of a migration a runner holds nothing back.
LEMMA NothingHeld ==
  ASSUME NEW r \in Runners, ~InMigration(r)', pend'[r] = NoPend,
         pc'[r] = "begin" => stmt'[r] = 1
  PROVE  HeldBack(r)'
BY DEF HeldBack, InMigration

\* What has moved before the first statement, after one more, and at the end.
LEMMA MovedBounds ==
  ASSUME LocalInv, NEW r \in Runners, Executing(r)
  PROVE  /\ Stmts[Mig(r)] \in Nat
         /\ stmt[r] = 1 => Moved(r) = {}
         /\ stmt[r] = Stmts[Mig(r)] + 1 => Moved(r) = Content(Mig(r))
<1>1. Mig(r) \in Versions /\ Stmts[Mig(r)] \in Nat
  BY ItemType, ConstantsAssumption DEF LocalInv
<1> QED
  BY <1>1 DEF Moved, Content

\* A statement that is not refused moves its item, and is counted.
LEMMA ExecMoves ==
  ASSUME LocalInv, NEW r \in Runners, Exec(r), ~ (Finish(r, "err") /\ UNCHANGED effects)
  PROVE  /\ pc' = pc /\ req' = req /\ cur' = cur /\ row' = row
         /\ Mig(r)' = Mig(r)
         /\ Item(r) \in Content(Mig(r))
         /\ stmt'[r] = stmt[r] + 1 /\ stmt[r] <= Stmts[Mig(r)]
         /\ Moved(r)' = Moved(r) \cup {Item(r)}
         /\ req[r].tx =>
              /\ effects' = effects
              /\ pend'[r] = Held(pend[r], Item(r), req[r].direction = "up")
         /\ ~req[r].tx =>
              /\ effects' = IF req[r].direction = "up"
                            THEN effects \cup {Item(r)} ELSE effects \ {Item(r)}
              /\ pend'[r] = pend[r]
<1> DEFINE up == req[r].direction = "up"
<1>1. TypeOK /\ PlanInv
  BY DEF LocalInv
<1>2. /\ stmt' = [stmt EXCEPT ![r] = @ + 1]
      /\ pc' = pc /\ req' = req /\ cur' = cur /\ row' = row
      /\ pc[r] = "exec" /\ stmt[r] <= Stmts[Mig(r)]
      /\ req[r].tx => pend' = [pend EXCEPT ![r] = Held(@, Item(r), up)] /\ effects' = effects
      /\ ~req[r].tx =>
           /\ effects' = IF up THEN effects \cup {Item(r)} ELSE effects \ {Item(r)}
           /\ pend' = pend
  BY DEF Exec
<1>3. stmt[r] \in Nat \ {0} /\ stmt'[r] = stmt[r] + 1
  BY <1>1, <1>2 DEF TypeOK, LocalTypeOK
<1>4. Stmts[Mig(r)] \in Nat /\ Item(r) \in Content(Mig(r))
  BY <1>1, <1>2, ItemType, ConstantsAssumption DEF Executing
<1>5. Mig(r)' = Mig(r)
  BY <1>2 DEF Mig
<1>6. Moved(r)' = Moved(r) \cup {Item(r)}
  BY <1>2, <1>3, <1>4, <1>5 DEF Moved, Item, Content
<1>7. req[r].tx => pend'[r] = Held(pend[r], Item(r), up)
  BY <1>1, <1>2 DEF TypeOK, LocalTypeOK
<1> QED
  BY <1>2, <1>3, <1>4, <1>5, <1>6, <1>7

\* Every database call leaves a transaction with the items it has moved.
LEMMA NextPend == LocalInv /\ [Next]_vars => PendInv'
<1> SUFFICES ASSUME LocalInv, [Next]_vars PROVE PendInv'
  OBVIOUS
<1>0. TypeOK /\ PlanInv /\ PendInv
  BY DEF LocalInv
<1>1. ASSUME NEW r \in Runners, Start(r) PROVE HeldBack(r)'
  <2>1. pc[r] = "idle" /\ pc'[r] = "table" /\ pend'[r] = pend[r]
    BY <1>0, <1>1 DEF Start, TypeOK, LocalTypeOK
  <2> QED
    BY <1>0, <2>1, NothingHeld DEF PendInv, HeldBack, InMigration
<1>2. ASSUME NEW r \in Runners, EnsureTable(r) \/ EnsureRow(r) PROVE HeldBack(r)'
  <2>1. /\ pc[r] \in {"table", "row"} /\ pc'[r] \in {"row", "insert", "read"}
        /\ pend'[r] = pend[r]
    BY <1>0, <1>2 DEF EnsureTable, EnsureRow, GoTo, TypeOK, LocalTypeOK
  <2> QED
    BY <1>0, <2>1, NothingHeld DEF PendInv, HeldBack, InMigration
<1>3. ASSUME NEW r \in Runners, InsertRow(r) PROVE HeldBack(r)'
  <2>1. CASE Finish(r, "err")
    BY <1>0, <2>1, Ended, NothingHeld DEF InMigration
  <2>2. CASE ~ Finish(r, "err")
    <3>1. pc[r] = "insert" /\ pc'[r] = "read" /\ pend'[r] = pend[r]
      BY <1>0, <1>3, <2>2 DEF InsertRow, GoTo, TypeOK, LocalTypeOK
    <3> QED
      BY <1>0, <3>1, NothingHeld DEF PendInv, HeldBack, InMigration
  <2> QED
    BY <2>1, <2>2
<1>4. ASSUME NEW r \in Runners, NEW c, Advance(r, c) \/ Finish(r, "err")
      PROVE  HeldBack(r)'
  BY <1>0, <1>4, Ended, Advanced, NothingHeld DEF InMigration
<1>5. ASSUME NEW r \in Runners, ReadVersion(r) PROVE HeldBack(r)'
  BY <1>4, <1>5 DEF ReadVersion
<1>6. ASSUME NEW r \in Runners, Begin(r) PROVE HeldBack(r)'
  <2>1. /\ pc[r] = "begin" /\ pc'[r] = "exec"
        /\ req' = req /\ cur' = cur /\ stmt' = stmt /\ pend' = pend
    BY <1>0, <1>6 DEF Begin, GoTo, local, TypeOK, LocalTypeOK
  <2>2. stmt[r] = 1 /\ pend[r] = NoPend
    BY <1>0, <2>1 DEF PendInv, HeldBack, InMigration
  <2>3. Stmts[Mig(r)] \in Nat /\ Moved(r) = {}
    BY <2>1, <2>2, MovedBounds DEF Executing
  <2>4. Moved(r)' = {} /\ Mig(r)' = Mig(r)
    BY <2>1, <2>3 DEF Moved, Mig
  <2> QED
    BY <2>1, <2>2, <2>3, <2>4 DEF HeldBack, InMigration, NoPend
<1>7. ASSUME NEW r \in Runners, Exec(r) PROVE HeldBack(r)'
  <2>1. CASE Finish(r, "err")
    BY <1>4, <2>1
  <2>2. CASE ~ Finish(r, "err")
    <3> DEFINE up == req[r].direction = "up"
    <3>1. /\ pc[r] = "exec" /\ Stmts[Mig(r)] \in Nat
          /\ stmt[r] \in Nat
          /\ pend[r] \in [added : SUBSET Items, removed : SUBSET Items,
                          row : Versions \cup {Base, NoRow}]
      BY <1>0, <1>7, MovedBounds DEF Exec, Executing, TypeOK, LocalTypeOK
    <3>2. /\ pc' = pc /\ req' = req /\ cur' = cur
          /\ Mig(r)' = Mig(r)
          /\ stmt'[r] = stmt[r] + 1 /\ stmt[r] <= Stmts[Mig(r)]
          /\ Moved(r)' = Moved(r) \cup {Item(r)}
          /\ req[r].tx => pend'[r] = Held(pend[r], Item(r), up)
          /\ ~req[r].tx => pend'[r] = pend[r]
      BY <1>7, <2>2, ExecMoves
    <3>3. /\ pend[r].added   = IF req[r].tx /\ up THEN Moved(r) ELSE {}
          /\ pend[r].removed = IF req[r].tx /\ ~up THEN Moved(r) ELSE {}
          /\ pend[r].row = NoRow
      BY <1>0, <3>1 DEF PendInv, HeldBack, InMigration
    <3>4. /\ pend'[r].added   = IF req[r].tx /\ up THEN Moved(r)' ELSE {}
          /\ pend'[r].removed = IF req[r].tx /\ ~up THEN Moved(r)' ELSE {}
          /\ pend'[r].row = NoRow
      <4>1. CASE req[r].tx
        BY <3>1, <3>2, <3>3, <4>1 DEF Held
      <4>2. CASE ~req[r].tx
        BY <3>2, <3>3, <4>2
      <4> QED
        BY <4>1, <4>2
    <3> QED
      BY <3>1, <3>2, <3>4 DEF HeldBack, InMigration
  <2> QED
    BY <2>1, <2>2
<1>8. ASSUME NEW r \in Runners, WriteVersion(r) PROVE HeldBack(r)'
  <2>1. CASE ~ req[r].tx
    BY <1>4, <1>8, <2>1 DEF WriteVersion
  <2>2. CASE req[r].tx
    <3>1. /\ pend' = [pend EXCEPT ![r].row = After(req[r], cur[r])]
          /\ pc' = [pc EXCEPT ![r] = "commit"]
          /\ req' = req /\ cur' = cur /\ stmt' = stmt
          /\ pc[r] = "exec" /\ stmt[r] > Stmts[Mig(r)]
      BY <1>8, <2>2 DEF WriteVersion, GoTo, local
    <3>2. /\ pc'[r] = "commit"
          /\ pend'[r].added = pend[r].added /\ pend'[r].removed = pend[r].removed
          /\ pend'[r].row = After(req[r], cur[r])
      BY <1>0, <3>1 DEF TypeOK, LocalTypeOK
    <3>3. stmt[r] = Stmts[Mig(r)] + 1
      <4>1. Stmts[Mig(r)] \in Nat /\ stmt[r] \in Nat
        BY <1>0, <3>1, MovedBounds DEF Executing, TypeOK, LocalTypeOK
      <4> QED
        BY <1>0, <3>1, <4>1 DEF PendInv, HeldBack, InMigration
    <3>4. Moved(r)' = Moved(r) /\ Mig(r)' = Mig(r)
      BY <3>1 DEF Moved, Mig
    <3>5. Stmts[Mig(r)] \in Nat
      BY <3>1, MovedBounds DEF Executing
    <3> QED
      BY <1>0, <2>2, <3>1, <3>2, <3>3, <3>4, <3>5 DEF PendInv, HeldBack, InMigration
  <2> QED
    BY <2>1, <2>2
<1>9. ASSUME NEW r \in Runners, Commit(r) PROVE HeldBack(r)'
  BY <1>4, <1>9 DEF Commit
<1>10. ASSUME NEW r \in Runners, Fail(r) \/ Crash(r) PROVE HeldBack(r)'
  BY <1>0, <1>10, Ended, NothingHeld DEF Fail, Crash, InMigration
<1>11. ASSUME NEW r \in Runners, Acts(r) PROVE PendInv'
  <2>1. HeldBack(r)'
    BY <1>1, <1>2, <1>3, <1>5, <1>6, <1>7, <1>8, <1>9, <1>10, <1>11 DEF Acts, Step
  <2> QED
    BY <1>0, <1>11, <2>1, HeldByOthers
<1>12. CASE Done \/ UNCHANGED vars
  <2>1. UNCHANGED <<pc, pend, req, cur, stmt>>
    BY <1>12 DEF Done, vars, local
  <2>2. ASSUME NEW r \in Runners PROVE HeldBack(r)'
    <3>1. Moved(r)' = Moved(r) /\ Mig(r)' = Mig(r) /\ InMigration(r)' = InMigration(r)
      BY <2>1 DEF Moved, Mig, InMigration
    <3>2. HeldBack(r)
      BY <1>0 DEF PendInv
    <3> QED
      BY <2>1, <3>1, <3>2 DEF HeldBack
  <2> QED
    BY <2>2 DEF PendInv
<1> QED
  BY <1>11, <1>12 DEF Next, Acts

\* Before the first call nothing is held back.
LEMMA InitLocal == Init => LocalInv
<1>1. Init => PendInv
  BY DEF Init, PendInv, HeldBack, InMigration
<1> QED
  BY <1>1, InitType DEF LocalInv

\* Every step keeps types, plans and transactions in order.
LEMMA NextLocal == LocalInv /\ [Next]_vars => LocalInv'
BY NextType, NextPend DEF LocalInv

\* In all circumstances every variable has its type, a call that executes has a
\* plan for what is left, and an open transaction holds back exactly what the
\* statements so far have done: every way out of it rolls the rest back.
THEOREM TypeCorrect == Spec => [](TypeOK /\ PlanInv /\ PendInv)
<1>1. LocalInv => TypeOK /\ PlanInv /\ PendInv
  BY DEF LocalInv
<1> QED
  BY <1>1, InitLocal, NextLocal, PTL DEF Spec

-----------------------------------------------------------------------------
(* What success means.                                                     *)

\* A call reports success from one of three calls, and then what is stored is
\* its target.
LEMMA SuccessStores ==
  ASSUME LocalInv, [Next]_vars, NEW r \in Runners, Succeeds(r)
  PROVE  Stored' = Goal(req[r])
<1>0. TypeOK /\ PlanInv /\ PendInv
  BY DEF LocalInv
<1>1. pc[r] # "idle" /\ pc'[r] = "idle" /\ outcome'[r] = "ok"
  BY DEF Succeeds
<1>2. PICK s \in Runners : Acts(s)
  BY <1>1 DEF Next, Acts, Done, vars
<1>3. s = r
  BY <1>0, <1>1, <1>2, OthersKept
<1>4. ASSUME NEW o, Finish(r, o) PROVE o = "ok"
  BY <1>0, <1>1, <1>4, Ended
<1>5. ASSUME NEW c, Advance(r, c) PROVE c = Goal(req[r])
  BY <1>0, <1>1, <1>5, Advanced
<1>6. Goal(req[r]) # NoRow
  <2>1. Goal(req[r]) \in Versions \cup {Base}
    BY <1>0, RequestType, GoalIsVersion DEF TypeOK, LocalTypeOK
  <2> QED
    BY <2>1, NAssumption DEF Versions, Base, NoRow
<1>7. CASE ReadVersion(r)
  BY <1>4, <1>5, <1>7 DEF ReadVersion, db, Stored
<1>8. CASE WriteVersion(r)
  <2>1. ~ req[r].tx
    BY <1>0, <1>1, <1>8 DEF WriteVersion, GoTo, TypeOK, LocalTypeOK
  <2>2. row' = After(req[r], cur[r]) /\ Advance(r, row')
    BY <1>4, <1>8, <2>1 DEF WriteVersion
  <2> QED
    BY <1>5, <1>6, <2>2 DEF Stored
<1>9. CASE Commit(r)
  <2>1. row' = After(req[r], cur[r]) /\ Advance(r, row')
    BY <1>0, <1>4, <1>9 DEF Commit, PendInv, HeldBack
  <2> QED
    BY <1>5, <1>6, <2>1 DEF Stored
<1>10. ~ (Start(r) \/ EnsureTable(r) \/ EnsureRow(r) \/ Begin(r))
  BY <1>0, <1>1
     DEF Start, EnsureTable, EnsureRow, Begin, GoTo, TypeOK, LocalTypeOK
<1>11. ~ (InsertRow(r) \/ Fail(r) \/ Crash(r))
  BY <1>0, <1>1, <1>4
     DEF InsertRow, Fail, Crash, GoTo, TypeOK, LocalTypeOK
<1>12. ~ Exec(r)
  BY <1>0, <1>1, <1>4 DEF Exec
<1> QED
  BY <1>2, <1>3, <1>7, <1>8, <1>9, <1>10, <1>11, <1>12 DEF Acts, Step

-----------------------------------------------------------------------------
(* Versions and what they stand for.                                       *)

\* With an unbroken registry a plan goes from a version to its neighbour.
LEMMA NeighbourStep ==
  ASSUME AppendOnly, NEW q \in Requests, NEW c, Plannable(q, c), c # Goal(q)
  PROVE  /\ c \in Versions \cup {Base}
         /\ q.direction = "up" =>
              c + 1 \in Versions /\ Planned(q, c) = c + 1 /\ After(q, c) = c + 1
         /\ q.direction # "up" =>
              c \in Versions /\ Planned(q, c) = c /\ After(q, c) = c - 1
<1>1. q \in Request /\ q.registry \in SUBSET Versions
  BY RequestType
<1>2. PICK n \in 0 .. N : q.registry = 1 .. n
  BY DEF AppendOnly
<1>3. /\ Planned(q, c) \in 1 .. n
      /\ After(q, c) \in 0 .. n
      /\ q.direction = "up"   => c < After(q, c)
      /\ q.direction = "down" => After(q, c) < c
  BY <1>1, <1>2, PlanStep, NAssumption DEF Base
<1>4. c \in 0 .. n
  BY <1>2, NAssumption DEF Plannable, Base
<1>5. n \in Nat /\ n <= N /\ c \in Int
  BY <1>4, NAssumption
<1>6. ASSUME q.direction = "up"
      PROVE  c + 1 \in Versions /\ Planned(q, c) = c + 1 /\ After(q, c) = c + 1
  <2> DEFINE S == {v \in q.registry : c < v}
  <2>1. After(q, c) = Smallest(S) /\ Planned(q, c) = Smallest(S)
    BY <1>6 DEF After, Planned
  <2>2. c + 1 \in S
    BY <1>2, <1>3, <1>4, <1>5, <1>6
  <2>3. Smallest(S) \in S /\ Smallest(S) <= c + 1
    BY <1>1, <2>2, SmallestIsLeast
  <2>4. Smallest(S) = c + 1
    BY <1>2, <1>5, <2>3
  <2> QED
    BY <1>1, <2>1, <2>2, <2>4
<1>7. ASSUME q.direction # "up"
      PROVE  c \in Versions /\ Planned(q, c) = c /\ After(q, c) = c - 1
  <2> DEFINE S == {v \in q.registry : v < c}
  <2>1. q.direction = "down"
    BY <1>7 DEF Plannable
  <2>2. After(q, c) = Largest(S) /\ Planned(q, c) = c
    BY <1>7 DEF After, Planned
  <2>3. CASE c = 1
    <3>1. S = {}
      BY <1>2, <2>3
    <3> QED
      BY <1>3, <1>1, <1>2, <2>2, <2>3, <3>1 DEF Largest, Base
  <2>4. CASE c # 1
    <3>1. c - 1 \in S
      BY <1>2, <1>3, <1>4, <1>5, <2>1, <2>4
    <3>2. Largest(S) \in S /\ c - 1 <= Largest(S)
      BY <1>1, <3>1, LargestIsGreatest
    <3>3. Largest(S) = c - 1
      BY <1>2, <1>5, <3>2
    <3> QED
      BY <1>1, <1>2, <1>3, <2>2, <3>3
  <2> QED
    BY <2>3, <2>4
<1>8. c \in Versions \cup {Base}
  BY <1>4, <1>5, NAssumption DEF Versions, Base
<1> QED
  BY <1>6, <1>7, <1>8

\* What a version adds to the schema of the one before.
LEMMA PrefixStep ==
  ASSUME NEW v \in Versions
  PROVE  /\ Prefix(v) = Prefix(v - 1) \cup Content(v)
         /\ Prefix(v - 1) = Prefix(v) \ Content(v)
<1>1. \A u \in Versions : \A i \in Content(u) : i[1] = u
  BY DEF Content
<1>2. Content(v) \subseteq Items
  BY DEF Items
<1>3. \A i \in Items : \E u \in Versions : i \in Content(u)
  BY DEF Items
<1>4. \A i \in Items : i[1] \in Versions /\ (i[1] = v <=> i \in Content(v))
  BY <1>1, <1>3
<1>5. \A i \in Items : /\ i[1] <= v <=> (i[1] <= v - 1 \/ i \in Content(v))
                       /\ i[1] <= v - 1 <=> (i[1] <= v /\ i \notin Content(v))
  BY <1>4 DEF Versions
<1> QED
  BY <1>2, <1>5 DEF Prefix

\* Nothing stands below the first version.
LEMMA EmptyPrefix == Prefix(Base) = {}
<1>1. \A i \in Items : i[1] \in Versions
  BY DEF Items, Content
<1> QED
  BY <1>1 DEF Prefix, Versions, Base

-----------------------------------------------------------------------------
(* One call at a time, whatever statement fails, whatever answer is lost   *)
(* and whenever a process dies: a call that runs alone keeps the version   *)
(* that is stored in memory.                                               *)

\* It is enough to look at the runner that acts, since the others rest.
LEMMA OthersRest ==
  ASSUME TypeOK, AloneInv, NEW r \in Runners, Acts(r),
         Start(r) => \A s \in Runners : pc[s] = "idle",
         pc'[r] = "read" \/ Executing(r)' => row' # NoRow,
         Executing(r)' => cur'[r] = row'
  PROVE  AloneInv'
<1>1. pc[r] # "idle" \/ Start(r)
  BY DEF Acts, Step, EnsureTable, EnsureRow, InsertRow, ReadVersion, Begin, Exec,
         WriteVersion, Commit, Fail, Crash
<1>2. \A s \in Runners : s # r => pc[s] = "idle"
  BY <1>1 DEF AloneInv
<1>3. \A s \in Runners : s # r => pc'[s] = "idle" /\ ~Executing(s)'
  <2> TAKE s \in Runners
  <2> HAVE s # r
  <2>1. pc[s] = "idle" /\ pc'[s] = pc[s] /\ Executing(s)' = Executing(s)
    BY <1>2, OthersKept
  <2> QED
    BY <2>1 DEF Executing
<1>4. \A s \in Runners : pc'[s] = "read" \/ Executing(s)' => s = r
  BY <1>3
<1>5. \A s, u \in Runners : pc'[s] # "idle" /\ pc'[u] # "idle" => s = u
  BY <1>3
<1> QED
  BY <1>4, <1>5 DEF AloneInv

\* A call that ends or goes on has in memory what is stored.
LEMMA GoesOnAlone ==
  ASSUME TypeOK, AloneInv, NEW r \in Runners, Acts(r), pc[r] # "idle",
         NEW c, row' = c, c # NoRow \/ Finish(r, "err"),
         Advance(r, c) \/ Finish(r, "err")
  PROVE  AloneInv'
<1>1. ~ Start(r)
  BY DEF Start
<1>2. pc'[r] # "read" /\ (Executing(r)' => pc'[r] = "begin")
  BY Ended, Advanced DEF Executing
<1>3. Executing(r)' => cur'[r] = c /\ c # NoRow
  BY <1>2, Ended, Advanced
<1> QED
  BY <1>1, <1>2, <1>3, OthersRest

\* Every step of every call leaves it so.
LEMMA NextAlone ==
  ASSUME Exclusive = TRUE, LocalInv, AloneInv, [Next]_vars
  PROVE  AloneInv'
<1>0. TypeOK /\ PlanInv /\ PendInv
  BY DEF LocalInv
<1>1. ASSUME NEW r \in Runners, Start(r) PROVE AloneInv'
  <2>1. pc'[r] = "table" /\ \A s \in Runners : pc[s] = "idle"
    BY <1>0, <1>1 DEF Start, TypeOK, LocalTypeOK
  <2> QED
    BY <1>0, <1>1, <2>1, OthersRest DEF Acts, Executing
<1>2. ASSUME NEW r \in Runners, EnsureTable(r) \/ EnsureRow(r) PROVE AloneInv'
  <2>1. /\ pc[r] # "idle" /\ row' = row
        /\ pc'[r] \in {"row", "insert", "read"}
        /\ pc'[r] = "read" => row # NoRow
    BY <1>0, <1>2 DEF EnsureTable, EnsureRow, GoTo, db, TypeOK, LocalTypeOK
  <2> QED
    BY <1>0, <1>2, <2>1, OthersRest DEF Acts, Step, Start, Executing
<1>3. ASSUME NEW r \in Runners, InsertRow(r) PROVE AloneInv'
  <2>1. CASE Finish(r, "err")
    BY <1>0, <1>3, <2>1, GoesOnAlone DEF Acts, Step, InsertRow
  <2>2. CASE ~ Finish(r, "err")
    <3>1. pc[r] # "idle" /\ row' = Base /\ pc'[r] = "read"
      BY <1>0, <1>3, <2>2 DEF InsertRow, GoTo, TypeOK, LocalTypeOK
    <3> QED
      BY <1>0, <1>3, <3>1, OthersRest
         DEF Acts, Step, Start, Executing, Base, NoRow
  <2> QED
    BY <2>1, <2>2
<1>4. ASSUME NEW r \in Runners, ReadVersion(r) PROVE AloneInv'
  <2>1. pc[r] # "idle" /\ row' = row /\ row # NoRow /\ Stored = row
    BY <1>4 DEF ReadVersion, AloneInv, Stored, db
  <2> QED
    BY <1>0, <1>4, <2>1, GoesOnAlone DEF Acts, Step, ReadVersion
<1>5. ASSUME NEW r \in Runners, Begin(r) \/ Exec(r) PROVE AloneInv'
  <2>1. CASE Finish(r, "err")
    BY <1>0, <1>5, <2>1, GoesOnAlone DEF Acts, Step, Begin, Exec, db
  <2>2. CASE ~ Finish(r, "err")
    <3>1. /\ pc[r] \in {"begin", "exec"} /\ pc'[r] = "exec"
          /\ row' = row /\ cur' = cur
      BY <1>0, <1>5, <2>2 DEF Begin, Exec, GoTo, db, local, TypeOK, LocalTypeOK
    <3> QED
      BY <1>0, <1>5, <3>1, OthersRest DEF AloneInv, Acts, Step, Start, Executing
  <2> QED
    BY <2>1, <2>2
<1>6. ASSUME NEW r \in Runners, WriteVersion(r) PROVE AloneInv'
  <2>1. pc[r] = "exec" /\ After(req[r], cur[r]) # NoRow
    <3>1. pc[r] = "exec" /\ After(req[r], cur[r]) \in Versions \cup {Base}
      BY <1>0, <1>6, ItemType DEF WriteVersion, Executing
    <3> QED
      BY <3>1, NAssumption DEF Versions, Base, NoRow
  <2>2. CASE req[r].tx
    <3>1. pc'[r] = "commit" /\ row' = row /\ cur' = cur
      BY <1>0, <1>6, <2>2 DEF WriteVersion, GoTo, local, TypeOK, LocalTypeOK
    <3> QED
      BY <1>0, <1>6, <2>1, <3>1, OthersRest DEF AloneInv, Acts, Step, Start, Executing
  <2>3. CASE ~ req[r].tx
    BY <1>0, <1>6, <2>1, <2>3, GoesOnAlone DEF WriteVersion, Acts, Step
  <2> QED
    BY <2>2, <2>3
<1>7. ASSUME NEW r \in Runners, Commit(r) PROVE AloneInv'
  <2>1. After(req[r], cur[r]) \in Versions \cup {Base}
    BY <1>0, <1>7, ItemType DEF Commit, Executing
  <2>2. row' = After(req[r], cur[r]) /\ After(req[r], cur[r]) # NoRow
    BY <1>0, <1>7, <2>1, NAssumption
       DEF Commit, PendInv, HeldBack, Versions, Base, NoRow
  <2> QED
    BY <1>0, <1>7, <2>2, GoesOnAlone DEF Commit, Acts, Step
<1>8. ASSUME NEW r \in Runners, Fail(r) \/ Crash(r) PROVE AloneInv'
  <2>1. pc'[r] = "idle" /\ ~ Start(r)
    BY <1>0, <1>8, Ended DEF Fail, Crash, Start
  <2> QED
    BY <1>0, <1>8, <2>1, OthersRest DEF Acts, Executing
<1>9. CASE Done \/ UNCHANGED vars
  BY <1>9 DEF Done, vars, AloneInv, Executing
<1> QED
  BY <1>1, <1>2, <1>3, <1>4, <1>5, <1>6, <1>7, <1>8, <1>9 DEF Next, Step

\* Before the first call nobody runs.
LEMMA InitAlone == Init => LocalInv /\ AloneInv
<1>1. Init => AloneInv
  BY DEF Init, AloneInv, Executing
<1> QED
  BY <1>1, InitLocal

-----------------------------------------------------------------------------
(* Migrations come and go in order, whatever the builds register.          *)

\* In transactions the committed schema changes when one is committed.
LEMMA OnlyCommitMoves ==
  ASSUME AllInTx, LocalInv, [Next]_vars, ~ \E r \in Runners : Commit(r)
  PROVE  /\ effects' = effects
         /\ row' = row \/ (row = NoRow /\ row' = Base)
<1>1. \A r \in Runners : req[r].tx
  BY DEF AllInTx, LocalInv, TypeOK, LocalTypeOK
<1>2. ASSUME NEW r \in Runners, Exec(r) PROVE effects' = effects /\ row' = row
  BY <1>1, <1>2 DEF Exec
<1>3. ASSUME NEW r \in Runners, WriteVersion(r) PROVE effects' = effects /\ row' = row
  BY <1>1, <1>3 DEF WriteVersion
<1>4. ASSUME NEW r \in Runners, InsertRow(r)
      PROVE  effects' = effects /\ (row' = row \/ (row = NoRow /\ row' = Base))
  BY <1>4 DEF InsertRow
<1> QED
  BY <1>2, <1>3, <1>4
     DEF Next, Step, Start, EnsureTable, EnsureRow, ReadVersion, Begin, Fail, Crash, Done,
         vars, db

\* What a call commits is the whole of one migration.
LEMMA CommitMoves ==
  ASSUME LocalInv, AloneInv, NEW r \in Runners, Commit(r)
  PROVE  /\ req[r] \in Requests /\ Plannable(req[r], row) /\ row # Goal(req[r])
         /\ Stored = row /\ Stored' = row' /\ row' = After(req[r], row)
         /\ effects' = IF req[r].direction = "up"
                       THEN effects \cup Content(Planned(req[r], row))
                       ELSE effects \ Content(Planned(req[r], row))
<1>0. TypeOK /\ PlanInv /\ PendInv
  BY DEF LocalInv
<1>1. pc[r] = "commit" /\ Executing(r)
  BY DEF Commit, Executing
<1>2. cur[r] = row /\ row # NoRow
  BY <1>1 DEF AloneInv
<1>3. /\ req[r] \in Requests
      /\ Plannable(req[r], row) /\ row # Goal(req[r])
  BY <1>0, <1>1, <1>2 DEF TypeOK, LocalTypeOK, PlanInv
<1>4. /\ req[r].tx /\ pend[r].row = After(req[r], row)
      /\ stmt[r] = Stmts[Mig(r)] + 1
      /\ pend[r].added   = IF req[r].direction = "up" THEN Moved(r) ELSE {}
      /\ pend[r].removed = IF req[r].direction = "up" THEN {} ELSE Moved(r)
  BY <1>0, <1>1, <1>2 DEF PendInv, HeldBack, InMigration
<1>5. Moved(r) = Content(Planned(req[r], row))
  BY <1>1, <1>2, <1>4, MovedBounds DEF Mig
<1>6. row' = After(req[r], row) /\ effects' = (effects \ pend[r].removed) \cup pend[r].added
  BY <1>4 DEF Commit, View
<1>7. row' \in Versions \cup {Base}
  BY <1>0, <1>1, <1>2, <1>6, ItemType
<1>8. row' # NoRow
  BY <1>7, NAssumption DEF Versions, Base, NoRow
<1> QED
  BY <1>2, <1>3, <1>4, <1>5, <1>6, <1>8 DEF Stored

\* One call at a time, in transactions: migrations come into effect above the
\* stored version and go out of effect above the new one, for any builds,
\* whether or not their registries are beginnings of one line.
THEOREM InOrder ==
  ASSUME Exclusive = TRUE, AllInTx
  PROVE  Spec => MovesInOrder
<1> DEFINE Move == /\ \A i \in effects' \ effects : Stored < i[1]
                   /\ \A i \in effects \ effects' : Stored' < i[1]
<1>1. ASSUME LocalInv, AloneInv, NEW r \in Runners, Commit(r) PROVE Move
  <2> DEFINE q == req[r]
             m == Planned(q, row)
  <2>1. /\ q \in Requests /\ Plannable(q, row) /\ row # Goal(q)
        /\ Stored = row /\ Stored' = After(q, row)
        /\ effects' = IF q.direction = "up"
                      THEN effects \cup Content(m)
                      ELSE effects \ Content(m)
    BY <1>1, CommitMoves
  <2>2. /\ q.direction = "up" => row < After(q, row)
        /\ q.direction = "down" => After(q, row) < row
    BY <2>1, RequestType, PlanStep
  <2>3. \A i \in Content(m) : i[1] = m
    BY DEF Content
  <2>4. CASE q.direction = "up"
    <3>1. m = After(q, row)
      BY <2>4 DEF Planned, After
    <3> QED
      BY <2>1, <2>2, <2>3, <2>4, <3>1
  <2>5. CASE q.direction # "up"
    <3>1. m = row /\ q.direction = "down"
      BY <2>1, <2>5 DEF Planned, Plannable
    <3> QED
      BY <2>1, <2>2, <2>3, <2>5, <3>1
  <2> QED
    BY <2>4, <2>5
<1>2. LocalInv /\ AloneInv /\ [Next]_vars => [Move]_effects
  BY <1>1, OnlyCommitMoves
<1>3. LocalInv /\ AloneInv /\ [Next]_vars => LocalInv' /\ AloneInv'
  BY NextLocal, NextAlone
<1> QED
  BY InitAlone, <1>2, <1>3, PTL DEF Spec, MovesInOrder

-----------------------------------------------------------------------------
(* With builds that append, the schema is what the stored version says.    *)

\* What a step of the specification does to the committed version and schema.
LineStep ==
  \/ Stored' = Stored /\ effects' = effects
  \/ Stored < N /\ Stored' = Stored + 1 /\ effects' = effects \cup Content(Stored + 1)
  \/ 0 < Stored /\ Stored' = Stored - 1 /\ effects' = effects \ Content(Stored)

\* Every step keeps the schema with the version and is a step of the line.
LEMMA NextMatches ==
  ASSUME AllInTx, AppendOnly, LocalInv, IInv, [Next]_vars
  PROVE  SchemaMatchesVersion' /\ LineStep
<1>1. AloneInv /\ effects = Prefix(Stored)
  BY DEF IInv, SchemaMatchesVersion
<1>2. Stored \in 0 .. N
  BY NAssumption DEF LocalInv, TypeOK, Stored, Versions, Base
<1>3. ASSUME NEW r \in Runners, Commit(r) PROVE SchemaMatchesVersion' /\ LineStep
  <2>1. /\ req[r] \in Requests /\ Plannable(req[r], Stored) /\ Stored # Goal(req[r])
        /\ Stored' = After(req[r], Stored)
        /\ effects' = IF req[r].direction = "up"
                      THEN effects \cup Content(Planned(req[r], Stored))
                      ELSE effects \ Content(Planned(req[r], Stored))
    BY <1>1, <1>3, CommitMoves
  <2>2. CASE req[r].direction = "up"
    <3>1. /\ Stored + 1 \in Versions /\ Stored' = Stored + 1
          /\ effects' = effects \cup Content(Stored + 1)
      BY <2>1, <2>2, NeighbourStep
    <3>2. (Stored + 1) - 1 = Stored
      BY <1>2
    <3>3. Prefix(Stored + 1) = Prefix(Stored) \cup Content(Stored + 1)
      BY <3>1, <3>2, PrefixStep
    <3> QED
      BY <1>1, <1>2, <3>1, <3>3, NAssumption DEF SchemaMatchesVersion, LineStep, Versions
  <2>3. CASE req[r].direction # "up"
    <3>1. /\ Stored \in Versions /\ Stored' = Stored - 1
          /\ effects' = effects \ Content(Stored)
      BY <2>1, <2>3, NeighbourStep
    <3>2. Prefix(Stored - 1) = Prefix(Stored) \ Content(Stored)
      BY <3>1, PrefixStep
    <3> QED
      BY <1>1, <1>2, <3>1, <3>2, NAssumption DEF SchemaMatchesVersion, LineStep, Versions
  <2> QED
    BY <2>2, <2>3
<1>4. CASE ~ \E r \in Runners : Commit(r)
  <2>1. effects' = effects /\ Stored' = Stored
    BY <1>4, OnlyCommitMoves DEF Stored, Base, NoRow
  <2> QED
    BY <1>1, <2>1 DEF SchemaMatchesVersion, LineStep
<1> QED
  BY <1>3, <1>4

\* The schema of the empty database is that of the base.
LEMMA InitInv == Init => LocalInv /\ IInv
<1>1. Init => SchemaMatchesVersion
  BY EmptyPrefix DEF Init, SchemaMatchesVersion, Stored
<1> QED
  BY <1>1, InitAlone DEF IInv

\* The invariant is inductive.
LEMMA NextInv ==
  ASSUME Exclusive = TRUE, AllInTx, AppendOnly, LocalInv, IInv, [Next]_vars
  PROVE  LocalInv' /\ IInv'
BY NextLocal, NextAlone, NextMatches DEF IInv

\* With one call at a time, transactions and builds that append, the committed
\* schema is at every moment what the stored version says, whatever statement
\* fails, whatever answer is lost and whenever a process dies.
THEOREM SchemaMatches ==
  ASSUME Exclusive = TRUE, AllInTx, AppendOnly
  PROVE  Spec => []SchemaMatchesVersion
<1>1. LocalInv /\ IInv /\ [Next]_vars => LocalInv' /\ IInv'
  BY NextInv
<1>2. IInv => SchemaMatchesVersion
  BY DEF IInv
<1> QED
  BY InitInv, <1>1, <1>2, PTL DEF Spec

\* Under the same assumptions a call that reports success leaves the version
\* and the schema exactly at its target.
THEOREM OkAtTarget ==
  ASSUME Exclusive = TRUE, AllInTx, AppendOnly
  PROVE  Spec => OkMeansAtTarget
<1> DEFINE AtTarget == \A r \in Runners : Succeeds(r) =>
                         Stored' = Goal(req[r]) /\ effects' = Prefix(Goal(req[r]))
<1>1. LocalInv /\ IInv /\ [Next]_vars => LocalInv' /\ IInv'
  BY NextInv
<1>2. LocalInv /\ IInv /\ [Next]_vars => [AtTarget]_vars
  <2> SUFFICES ASSUME LocalInv, IInv, [Next]_vars, NEW r \in Runners, Succeeds(r)
               PROVE  Stored' = Goal(req[r]) /\ effects' = Prefix(Goal(req[r]))
    OBVIOUS
  <2>1. Stored' = Goal(req[r])
    BY SuccessStores
  <2>2. effects' = Prefix(Stored')
    BY NextMatches DEF SchemaMatchesVersion, Prefix
  <2> QED
    BY <2>1, <2>2
<1> QED
  BY InitInv, <1>1, <1>2, PTL DEF Spec, OkMeansAtTarget

\* Under the same assumptions ApplyMigrations implements VersionLine: what is
\* committed moves along the line of versions, one whole migration at a time.
THEOREM ImplementsLine ==
  ASSUME Exclusive = TRUE, AllInTx, AppendOnly
  PROVE  Spec => MovesAlongLine
<1>1. Init => Line!Init
  BY DEF Init, Line!Init, Stored, Base, NoRow
<1>2. LocalInv /\ IInv /\ [Next]_vars => LocalInv' /\ IInv'
  BY NextInv
<1>3. LocalInv /\ IInv /\ [Next]_vars => [Line!Next]_<<Stored, effects>>
  <2> SUFFICES ASSUME LocalInv, IInv, [Next]_vars
               PROVE  [Line!Next]_<<Stored, effects>>
    OBVIOUS
  <2>1. LineStep
    BY NextMatches
  <2>2. Stored \in 0 .. N
    BY NAssumption DEF LocalInv, TypeOK, Stored, Versions, Base
  <2> QED
    BY <2>1, <2>2, NAssumption
       DEF LineStep, Line!Next, Line!Up, Line!Down, Versions
<1> QED
  BY InitInv, <1>1, <1>2, <1>3, PTL DEF Spec, MovesAlongLine, Line!Spec

-----------------------------------------------------------------------------
(* Any number of calls at the same time, with and without transactions:    *)
(* nothing in the code keeps one out while another one runs, and the       *)
(* version a call has read may be old by the time it is used.  First the   *)
(* steps that move the committed version or schema.                        *)

\* The step of r that stores the version of the migration it has executed.
Completes(r) ==
  /\ InMigration(r)
  /\ stmt[r] = Stmts[Mig(r)] + 1
  /\ row' = After(req[r], cur[r])
  /\ effects' = View(r)
  /\ Advance(r, row') \/ Finish(r, "err")

\* A statement outside of transactions.
ExecutesAtOnce(r) ==
  /\ Exec(r)
  /\ ~ (Finish(r, "err") /\ UNCHANGED effects)
  /\ ~ req[r].tx

RowKept == row' = row \/ (row = NoRow /\ row' = Base)

\* There are no others.
LEMMA Changes ==
  ASSUME LocalInv, NEW r \in Runners, Acts(r)
  PROVE  \/ Completes(r)
         \/ RowKept /\ (effects' = effects \/ ExecutesAtOnce(r))
<1>0. TypeOK /\ PlanInv /\ PendInv
  BY DEF LocalInv
<1>1. CASE Exec(r)
  BY <1>1 DEF Exec, ExecutesAtOnce, RowKept
<1>2. CASE WriteVersion(r)
  <2>1. CASE req[r].tx
    BY <1>2, <2>1 DEF WriteVersion, RowKept
  <2>2. CASE ~ req[r].tx
    <3>1. /\ pc[r] = "exec" /\ stmt[r] > Stmts[Mig(r)]
          /\ row' = After(req[r], cur[r]) /\ effects' = effects
          /\ Advance(r, row') \/ Finish(r, "err")
      BY <1>2, <2>2 DEF WriteVersion
    <3>2. /\ stmt[r] <= Stmts[Mig(r)] + 1
          /\ pend[r].added = {} /\ pend[r].removed = {}
      BY <1>0, <2>2, <3>1 DEF PendInv, HeldBack, InMigration
    <3>3. Stmts[Mig(r)] \in Nat /\ stmt[r] \in Nat
      BY <1>0, <3>1, MovedBounds DEF Executing, TypeOK, LocalTypeOK
    <3> QED
      BY <3>1, <3>2, <3>3 DEF Completes, InMigration, View
  <2> QED
    BY <2>1, <2>2
<1>3. CASE Commit(r)
  BY <1>0, <1>3 DEF Commit, Completes, PendInv, HeldBack, InMigration
<1>4. CASE InsertRow(r)
  BY <1>4 DEF InsertRow, RowKept
<1> QED
  BY <1>1, <1>2, <1>3, <1>4
     DEF Acts, Step, Start, EnsureTable, EnsureRow, ReadVersion, Begin, Fail, Crash, db,
         RowKept

\* An item is a statement of a migration.
LEMMA ItemParts ==
  /\ \A i \in Items : /\ i[1] \in Versions /\ i[2] \in Nat \ {0}
                      /\ i = <<i[1], i[2]>> /\ i \in Content(i[1])
  /\ \A v \in Versions : \A i \in Content(v) : i \in Items /\ i[1] = v
<1>1. \A v \in Versions : Stmts[v] \in Nat
  BY ConstantsAssumption
<1>2. \A v \in Versions : \A i \in Content(v) :
        i[1] = v /\ i[2] \in Nat \ {0} /\ i = <<i[1], i[2]>>
  BY <1>1 DEF Content
<1> QED
  BY <1>2 DEF Items

-----------------------------------------------------------------------------
(* Upwards only: what is in effect stays, and a runner can rely on it.     *)

\* A call that executes goes from the version in its memory to the next.
LEMMA GoesUp ==
  ASSUME UpOnly, AppendOnly, LocalInv, NEW r \in Runners, Executing(r)
  PROVE  /\ req[r].direction = "up"
         /\ cur[r] \in Versions \cup {Base}
         /\ cur[r] + 1 \in Versions
         /\ Mig(r) = cur[r] + 1
         /\ After(req[r], cur[r]) = cur[r] + 1
         /\ Prefix(cur[r] + 1) = Prefix(cur[r]) \cup Content(cur[r] + 1)
<1>1. /\ req[r] \in Requests /\ req[r].direction = "up"
      /\ Plannable(req[r], cur[r]) /\ cur[r] # Goal(req[r])
  BY DEF UpOnly, LocalInv, PlanInv, TypeOK, LocalTypeOK
<1>2. /\ cur[r] \in Versions \cup {Base} /\ cur[r] + 1 \in Versions
      /\ Mig(r) = cur[r] + 1 /\ After(req[r], cur[r]) = cur[r] + 1
  BY <1>1, NeighbourStep DEF Mig
<1>3. (cur[r] + 1) - 1 = cur[r]
  BY <1>2 DEF Versions, Base
<1> QED
  BY <1>1, <1>2, <1>3, PrefixStep

\* What a runner sees beyond what is committed.
LEMMA SeesMore ==
  ASSUME UpOnly, LocalInv, NEW r \in Runners
  PROVE  /\ View(r) = effects \cup pend[r].added
         /\ InMigration(r) => pend[r].added \subseteq Moved(r)
         /\ InMigration(r) /\ req[r].tx => pend[r].added = Moved(r)
<1>1. req[r].direction = "up"
  BY DEF UpOnly, LocalInv, TypeOK, LocalTypeOK
<1>2. pend[r].removed = {}
  BY <1>1 DEF LocalInv, PendInv, HeldBack, NoPend
<1> QED
  BY <1>1, <1>2 DEF View, LocalInv, PendInv, HeldBack

\* Nothing goes out of effect.
LEMMA EffectsGrow ==
  ASSUME UpOnly, LocalInv, NEW r \in Runners, Acts(r)
  PROVE  effects \subseteq effects'
<1>1. CASE Completes(r)
  BY <1>1, SeesMore DEF Completes
<1>2. CASE ExecutesAtOnce(r)
  <2>1. req[r].direction = "up"
    BY DEF UpOnly, LocalInv, TypeOK, LocalTypeOK
  <2> QED
    BY <1>2, <2>1, ExecMoves DEF ExecutesAtOnce
<1> QED
  BY <1>1, <1>2, Changes

\* The migration that is completed has been executed in full.
LEMMA CompletesInFull ==
  ASSUME UpOnly, AppendOnly, LocalInv, ReachedInv, NEW r \in Runners, Completes(r)
  PROVE  /\ Executing(r) /\ Mig(r) = cur[r] + 1
         /\ row' = cur[r] + 1 /\ Stored' = cur[r] + 1
         /\ Moved(r) = Content(cur[r] + 1)
         /\ effects \subseteq effects'
         /\ effects' \subseteq effects \cup Content(cur[r] + 1)
         /\ Prefix(cur[r] + 1) \subseteq effects'
<1>1. Executing(r) /\ InMigration(r)
  BY DEF Completes, InMigration, Executing
<1>2. /\ cur[r] \in Versions \cup {Base} /\ cur[r] + 1 \in Versions
      /\ Mig(r) = cur[r] + 1 /\ row' = cur[r] + 1
      /\ Prefix(cur[r] + 1) = Prefix(cur[r]) \cup Content(cur[r] + 1)
  BY <1>1, GoesUp DEF Completes
<1>3. Stored' = cur[r] + 1
  BY <1>2, NAssumption DEF Stored, NoRow, Versions, Base
<1>4. Moved(r) = Content(cur[r] + 1)
  BY <1>1, <1>2, MovedBounds DEF Completes
<1>5. /\ effects' = effects \cup pend[r].added
      /\ pend[r].added \subseteq Moved(r)
      /\ Moved(r) \subseteq effects' /\ Prefix(cur[r]) \subseteq effects
  BY <1>1, SeesMore DEF Completes, ReachedInv
<1> QED
  BY <1>1, <1>2, <1>3, <1>4, <1>5

\* Where the runner that acts is afterwards: it goes on with its migration, or
\* it is about to begin at the version that is stored.
LEMMA WhereNext ==
  ASSUME LocalInv, NEW r \in Runners, Acts(r), Executing(r)'
  PROVE  \/ pc'[r] = "begin" /\ cur'[r] = Stored'
         \/ Begin(r)
         \/ WriteVersion(r) /\ pc'[r] = "commit" /\ RowKept /\ effects' = effects
                            /\ cur' = cur /\ Moved(r)' = Moved(r) /\ pc[r] = "exec"
         \/ Exec(r) /\ ~ (Finish(r, "err") /\ UNCHANGED effects)
<1>0. TypeOK /\ PlanInv /\ PendInv
  BY DEF LocalInv
<1>1. ASSUME NEW o, Finish(r, o) PROVE FALSE
  BY <1>0, <1>1, Ended DEF Executing
<1>2. ASSUME NEW c, Advance(r, c) PROVE pc'[r] = "begin" /\ cur'[r] = c
  BY <1>0, <1>2, Advanced DEF Executing
<1>3. CASE ReadVersion(r)
  BY <1>1, <1>2, <1>3 DEF ReadVersion, db, Stored
<1>4. CASE WriteVersion(r) \/ Commit(r)
  <2>1. After(req[r], cur[r]) # NoRow
    <3>1. After(req[r], cur[r]) \in Versions \cup {Base}
      BY <1>0, <1>4, ItemType DEF WriteVersion, Commit, Executing
    <3> QED
      BY <3>1, NAssumption DEF Versions, Base, NoRow
  <2>2. CASE WriteVersion(r) /\ req[r].tx
    BY <1>0, <2>2
       DEF WriteVersion, GoTo, local, Moved, Mig, TypeOK, LocalTypeOK, RowKept
  <2>3. CASE ~ (WriteVersion(r) /\ req[r].tx)
    <3>1. row' = After(req[r], cur[r]) /\ Advance(r, row')
      BY <1>0, <1>1, <1>4, <2>3 DEF WriteVersion, Commit, PendInv, HeldBack
    <3> QED
      BY <1>2, <2>1, <3>1 DEF Stored
  <2> QED
    BY <2>2, <2>3
<1>5. ~ (Start(r) \/ EnsureTable(r) \/ EnsureRow(r) \/ InsertRow(r) \/ Fail(r) \/ Crash(r))
  BY <1>0, <1>1
     DEF Start, EnsureTable, EnsureRow, InsertRow, Fail, Crash, GoTo, Executing, TypeOK,
         LocalTypeOK
<1>6. CASE Exec(r)
  BY <1>1, <1>6
<1> QED
  BY <1>3, <1>4, <1>5, <1>6 DEF Acts, Step

\* The items that r has moved are in its transaction or in effect.
LEMMA MovedStays ==
  ASSUME UpOnly, AppendOnly, LocalInv, LocalInv', ReachedInv, NEW r \in Runners, Acts(r),
         NEW s \in Runners, InMigration(s)'
  PROVE  Moved(s)' \subseteq View(s)'
<1>0. TypeOK /\ PendInv' /\ effects \subseteq effects'
  BY EffectsGrow DEF LocalInv
<1>1. req'[s].direction = "up"
  BY DEF UpOnly, LocalInv, TypeOK, LocalTypeOK
<1>2. View(s)' = effects' \cup pend'[s].added
  BY <1>0, <1>1 DEF View, PendInv, HeldBack, NoPend
<1>3. CASE req'[s].tx
  BY <1>0, <1>1, <1>2, <1>3 DEF PendInv, HeldBack
<1>4. CASE s # r
  <2>1. InMigration(s) /\ Moved(s)' = Moved(s) /\ pend'[s] = pend[s]
    BY <1>0, <1>4, OthersKept
  <2> QED
    BY <1>0, <1>2, <2>1, SeesMore DEF ReachedInv
<1>5. CASE s = r /\ ~ req'[r].tx
  <2>1. Executing(r)' /\ pc'[r] # "begin"
    BY <1>5 DEF InMigration, Executing
  <2>2. CASE Begin(r)
    <3>1. pc[r] = "begin" /\ req' = req /\ cur' = cur /\ stmt' = stmt
      BY <2>2 DEF Begin, local
    <3>2. stmt[r] = 1 /\ Moved(r)' = Moved(r)
      BY <3>1 DEF LocalInv, PendInv, HeldBack, Moved, Mig
    <3>3. Moved(r) = {}
      BY <3>1, <3>2, MovedBounds DEF Executing
    <3> QED
      BY <1>5, <3>2, <3>3
  <2>3. CASE Exec(r) /\ ~ (Finish(r, "err") /\ UNCHANGED effects)
    <3>1. /\ pc' = pc /\ req' = req /\ pend'[r] = pend[r]
          /\ Moved(r)' = Moved(r) \cup {Item(r)}
          /\ effects' = effects \cup {Item(r)}
      BY <1>1, <1>5, <2>3, ExecMoves
    <3>2. Moved(r) \subseteq effects \cup pend[r].added
      BY <1>5, <3>1, SeesMore DEF ReachedInv, InMigration
    <3> QED
      BY <1>2, <1>5, <3>1, <3>2
  <2>4. CASE WriteVersion(r) /\ pc'[r] = "commit"
    BY <1>0, <1>5, <2>4 DEF PendInv, HeldBack
  <2> QED
    BY <2>1, <2>2, <2>3, <2>4, WhereNext
<1> QED
  BY <1>3, <1>4, <1>5

\* What a runner relies on is not taken back by another one.
LEMMA NextReached ==
  ASSUME UpOnly, AppendOnly, LocalInv, ReachedInv, [Next]_vars
  PROVE  ReachedInv'
<1>0. TypeOK /\ LocalInv'
  BY NextLocal DEF LocalInv
<1>1. CASE UNCHANGED vars
  BY <1>1
     DEF vars, ReachedInv, VersionNeverOverclaims, Stored, Prefix, Executing, InMigration,
         Moved, Mig, View
<1>2. ASSUME NEW r \in Runners, Acts(r) PROVE ReachedInv'
  <2>1. effects \subseteq effects'
    BY <1>2, EffectsGrow
  <2>2. Prefix(Stored') \subseteq effects'
    <3>1. CASE Completes(r)
      BY <3>1, CompletesInFull
    <3>2. CASE RowKept
      <4>1. Stored' = Stored
        BY <3>2 DEF RowKept, Stored, Base, NoRow
      <4> QED
        BY <2>1, <4>1 DEF ReachedInv, VersionNeverOverclaims
    <3> QED
      BY <1>2, <3>1, <3>2, Changes
  <2>3. ASSUME NEW s \in Runners, Executing(s)' PROVE Prefix(cur'[s]) \subseteq effects'
    <3>1. CASE s # r
      <4>1. Executing(s) /\ cur'[s] = cur[s]
        BY <1>0, <1>2, <2>3, <3>1, OthersKept
      <4> QED
        BY <2>1, <4>1 DEF ReachedInv
    <3>2. CASE s = r /\ cur'[r] = Stored'
      BY <2>2, <3>2
    <3>3. CASE s = r /\ cur'[r] = cur[r] /\ Executing(r)
      BY <2>1, <3>3 DEF ReachedInv
    <3>4. Begin(r) \/ Exec(r) \/ WriteVersion(r) => Executing(r)
      BY DEF Begin, Exec, WriteVersion, Executing
    <3>5. Begin(r) => cur' = cur
      BY DEF Begin, local
    <3> QED
      BY <1>2, <2>3, <3>1, <3>2, <3>3, <3>4, <3>5, WhereNext, ExecMoves
  <2>4. VersionNeverOverclaims'
    BY <2>2 DEF VersionNeverOverclaims, Prefix
  <2>5. \A s \in Runners : InMigration(s)' => Moved(s)' \subseteq View(s)'
    BY <1>0, <1>2, MovedStays
  <2> QED
    BY <2>3, <2>4, <2>5 DEF ReachedInv, Prefix
<1> QED
  BY <1>1, <1>2 DEF Next, Acts, Done

\* Before the first call nothing is claimed.
LEMMA InitReached == Init => LocalInv /\ ReachedInv
<1>1. Init => ReachedInv
  BY EmptyPrefix
     DEF Init, ReachedInv, VersionNeverOverclaims, Stored, Executing, InMigration
<1> QED
  BY <1>1, InitLocal

\* However many upgrades run at the same time, in transactions or not, and
\* whatever of them fails or dies, with builds that append the stored version
\* never claims a migration of which a statement has not been executed.
THEOREM NeverOverclaims ==
  ASSUME UpOnly, AppendOnly
  PROVE  Spec => []VersionNeverOverclaims
<1>1. LocalInv /\ ReachedInv /\ [Next]_vars => LocalInv' /\ ReachedInv'
  BY NextLocal, NextReached
<1>2. ReachedInv => VersionNeverOverclaims
  BY DEF ReachedInv
<1> QED
  BY InitReached, <1>1, <1>2, PTL DEF Spec

\* Under the same assumptions a call that reports success leaves its target
\* stored and in effect, whatever the others were doing.
THEOREM OkReached ==
  ASSUME UpOnly, AppendOnly
  PROVE  Spec => OkMeansReached
<1> DEFINE Reached == \A r \in Runners : Succeeds(r) =>
                        Goal(req[r]) <= Stored' /\ Prefix(Goal(req[r])) \subseteq effects'
<1>1. LocalInv /\ ReachedInv /\ [Next]_vars => LocalInv' /\ ReachedInv'
  BY NextLocal, NextReached
<1>2. LocalInv /\ ReachedInv /\ [Next]_vars => [Reached]_vars
  <2> SUFFICES ASSUME LocalInv, ReachedInv, [Next]_vars, NEW r \in Runners, Succeeds(r)
               PROVE  /\ Goal(req[r]) <= Stored'
                      /\ Prefix(Goal(req[r])) \subseteq effects'
    OBVIOUS
  <2>1. Stored' = Goal(req[r])
    BY SuccessStores
  <2>2. Prefix(Stored') \subseteq effects'
    BY <1>1 DEF ReachedInv, VersionNeverOverclaims, Prefix
  <2>3. Stored' \in Int
    BY <1>1, NAssumption DEF LocalInv, TypeOK, Stored, Versions, Base, NoRow
  <2> QED
    BY <2>1, <2>2, <2>3
<1> QED
  BY InitReached, <1>1, <1>2, PTL DEF Spec, OkMeansReached

-----------------------------------------------------------------------------
(* Migrations that cannot be repeated have an owner.                       *)

\* A migration that has been executed in full has been claimed.
LEMMA CompletesAsOwner ==
  ASSUME UpOnly, AppendOnly, NoneRepeats, LocalInv, ReachedInv, ClaimInv,
         NEW r \in Runners, Completes(r)
  PROVE  /\ Claims(r) /\ cur[r] = Stored
         /\ Stored' = Stored + 1 /\ row' = Stored + 1
         /\ effects' = Prefix(Stored + 1)
<1>1. /\ InMigration(r) /\ Executing(r)
      /\ Mig(r) = cur[r] + 1 /\ row' = cur[r] + 1 /\ Stored' = cur[r] + 1
      /\ Moved(r) = Content(cur[r] + 1)
      /\ effects' \subseteq effects \cup Content(cur[r] + 1)
      /\ Prefix(cur[r] + 1) \subseteq effects'
  BY CompletesInFull DEF Completes
<1>2. /\ cur[r] \in Int /\ cur[r] + 1 \in Versions
      /\ Prefix(cur[r] + 1) = Prefix(cur[r]) \cup Content(cur[r] + 1)
  BY <1>1, GoesUp DEF Versions, Base
<1>3. Claims(r) /\ cur[r] = Stored
  BY <1>1, <1>2 DEF NoneRepeats, Claims, ClaimInv
<1>4. effects \subseteq Prefix(Stored) \cup Content(Stored + 1)
  BY <1>2, <1>3, ItemParts DEF ClaimInv, AtMostOneHalfDone
<1> QED
  BY <1>1, <1>2, <1>3, <1>4

\* The stored version only goes up.
LEMMA VersionGrows ==
  ASSUME UpOnly, AppendOnly, NoneRepeats, LocalInv, ReachedInv, ClaimInv,
         NEW r \in Runners, Acts(r)
  PROVE  /\ Stored \in 0 .. N /\ Stored <= Stored' /\ row <= row'
         /\ Stored' # Stored => Completes(r)
<1>1. Stored \in 0 .. N /\ row \in Int /\ row <= Stored
  BY NAssumption DEF LocalInv, TypeOK, Stored, Versions, Base, NoRow
<1>2. CASE Completes(r)
  BY <1>1, <1>2, CompletesAsOwner
<1>3. CASE RowKept
  <2>1. Stored' = Stored
    BY <1>3 DEF RowKept, Stored, Base, NoRow
  <2>2. row <= row'
    <3>1. NoRow <= Base
      BY DEF NoRow, Base
    <3> QED
      BY <1>1, <1>3, <3>1 DEF RowKept
  <2> QED
    BY <1>1, <2>1, <2>2
<1> QED
  BY <1>2, <1>3, Changes

\* A statement that cannot be repeated succeeds for the owner alone: nobody
\* else has executed it, and the migration is the next one.
LEMMA ClaimIsNew ==
  ASSUME UpOnly, AppendOnly, LocalInv, ReachedInv, ClaimInv, NEW r \in Runners,
         Exec(r), ~ (Finish(r, "err") /\ UNCHANGED effects),
         ~ Claims(r), Item(r) \in Strict
  PROVE  /\ cur[r] = Stored
         /\ \A s \in Runners : ~ Claims(s)
<1>1. /\ TypeOK /\ pc[r] = "exec" /\ InMigration(r) /\ Executing(r)
      /\ ~ ItemLocked(r) /\ stmt[r] \in Nat
  BY DEF LocalInv, TypeOK, LocalTypeOK, Exec, InMigration, Executing
<1>2. /\ req[r].direction = "up"
      /\ cur[r] \in Int /\ cur[r] + 1 \in Versions /\ Mig(r) = cur[r] + 1
      /\ Item(r) = <<cur[r] + 1, stmt[r]>>
  BY <1>1, GoesUp DEF Item, Versions, Base
<1>3. Item(r) \in Content(cur[r] + 1) /\ Item(r) \in Items
  BY <1>2, ExecMoves, ItemParts
<1>4. Item(r) \notin View(r) /\ Item(r) \notin effects
  <2>1. Item(r) \notin View(r)
    BY <1>2 DEF Exec
  <2> QED
    BY <2>1, SeesMore
<1>5. cur[r] = Stored
  <2>1. cur[r] <= Stored /\ Stored \in Int
    BY <1>1, NAssumption DEF ClaimInv, TypeOK, Stored, Versions, Base, NoRow
  <2>2. CASE cur[r] + 1 <= Stored
    <3>1. Item(r) \in Prefix(Stored)
      BY <1>2, <1>3, <2>2 DEF Prefix
    <3> QED
      BY <1>4, <3>1 DEF ReachedInv, VersionNeverOverclaims
  <2> QED
    BY <1>2, <2>1, <2>2
<1>6. ASSUME NEW s \in Runners, Claims(s) PROVE FALSE
  <2>1. /\ s # r /\ cur[s] = Stored /\ InMigration(s) /\ Executing(s)
        /\ stmt[s] \in Nat
    BY <1>1, <1>6 DEF ClaimInv, Claims, InMigration, Executing, TypeOK, LocalTypeOK
  <2>2. Mig(s) = Mig(r) /\ req[s].direction = "up"
    BY <1>1, <1>2, <1>5, <2>1, GoesUp
  <2>3. PICK j \in Moved(s) : j \in Strict
    BY <1>6 DEF Claims
  <2>4. j \in Content(Mig(r)) /\ j \notin Moved(r) /\ j[2] < stmt[s]
    BY <1>1, <2>2, <2>3 DEF Claims, Moved
  <2>5. j[2] \in Nat /\ stmt[r] <= j[2]
    BY <1>1, <1>2, <2>4, ItemParts DEF Moved
  <2>6. Item(r) \in Moved(s)
    BY <1>1, <1>2, <1>3, <2>1, <2>2, <2>4, <2>5 DEF Moved
  <2>7. Item(r) \in effects \cup pend[s].added
    BY <2>1, <2>6, SeesMore DEF ReachedInv
  <2> QED
    BY <1>1, <1>4, <2>1, <2>7 DEF ItemLocked
<1> QED
  BY <1>5, <1>6

\* An owner has just claimed the next migration, or has been its owner before.
LEMMA OwnerNext ==
  ASSUME UpOnly, AppendOnly, NoneRepeats, LocalInv, ReachedInv, ClaimInv,
         NEW r \in Runners, Acts(r), NEW s \in Runners, Claims(s)'
  PROVE  /\ cur'[s] = cur[s] /\ cur[s] = Stored /\ Stored' = Stored
         /\ Claims(s) \/ (s = r /\ \A u \in Runners : ~ Claims(u))
<1>0. TypeOK
  BY DEF LocalInv
<1>1. CASE s # r
  <2>1. Claims(s) /\ cur'[s] = cur[s] /\ cur[s] = Stored
    BY <1>0, <1>1, OthersKept DEF Claims, ClaimInv
  <2>2. ~ Completes(r)
    BY <1>1, <2>1, CompletesAsOwner DEF ClaimInv
  <2> QED
    BY <2>1, <2>2, VersionGrows
<1>2. CASE s = r
  <2>1. InMigration(r)' /\ Executing(r)' /\ pc'[r] # "begin"
    BY <1>2 DEF Claims, InMigration, Executing
  <2>2. ~ Completes(r)
    <3>1. ~ \E c : Advance(r, c) \/ Finish(r, "err")
      BY <1>0, <2>1, Ended, Advanced DEF InMigration
    <3> QED
      BY <3>1 DEF Completes
  <2>3. Stored' = Stored
    BY <2>2, VersionGrows
  <2>4. CASE Begin(r)
    <3>1. pc[r] = "begin" /\ Moved(r)' = Moved(r) /\ stmt[r] = 1
      BY <2>4 DEF Begin, local, Moved, Mig, LocalInv, PendInv, HeldBack
    <3>2. Moved(r)' = {}
      BY <3>1, MovedBounds DEF Executing
    <3> QED
      BY <1>2, <3>2 DEF Claims
  <2>5. CASE WriteVersion(r) /\ cur' = cur /\ Moved(r)' = Moved(r) /\ pc[r] = "exec"
    <3>1. Claims(r)
      BY <1>2, <2>5 DEF Claims, InMigration
    <3> QED
      BY <1>2, <2>3, <2>5, <3>1 DEF ClaimInv
  <2>6. CASE Exec(r) /\ ~ (Finish(r, "err") /\ UNCHANGED effects)
    <3>1. /\ pc' = pc /\ cur' = cur /\ Moved(r)' = Moved(r) \cup {Item(r)}
      BY <2>6, ExecMoves
    <3>2. Claims(r) \/ Item(r) \in Strict
      BY <1>2, <3>1 DEF Claims, InMigration
    <3>3. cur[r] = Stored /\ (Claims(r) \/ \A u \in Runners : ~ Claims(u))
      BY <2>6, <3>2, ClaimIsNew DEF ClaimInv
    <3> QED
      BY <1>2, <2>3, <3>1, <3>3
  <2> QED
    BY <2>1, <2>4, <2>5, <2>6, WhereNext
<1> QED
  BY <1>1, <1>2

\* Of the migration after the stored one a beginning is in effect, and of those
\* that follow it nothing.
LEMMA HalfDoneGrows ==
  ASSUME UpOnly, AppendOnly, NoneRepeats, LocalInv, ReachedInv, ClaimInv,
         NEW r \in Runners, Acts(r)
  PROVE  AtMostOneHalfDone'
<1> DEFINE Begun(k) == {i \in Items : i[1] = Stored + 1 /\ i[2] <= k}
<1>0. TypeOK /\ Stored \in 0 .. N
  BY VersionGrows DEF LocalInv
<1>1. CASE Completes(r)
  <2>1. effects' = Prefix(Stored')
    BY <1>1, CompletesAsOwner
  <2>2. {i \in Items : i[1] = Stored' + 1 /\ i[2] <= 0} = {}
    BY ItemParts
  <2>3. effects' = Prefix(Stored') \cup {i \in Items : i[1] = Stored' + 1 /\ i[2] <= 0}
    BY <2>1, <2>2
  <2> QED
    BY <2>3 DEF AtMostOneHalfDone, Prefix
<1>2. CASE ~ Completes(r)
  <2>1. Stored' = Stored
    BY <1>2, VersionGrows
  <2>2. PICK k \in {0} \cup {i[2] : i \in Items} : effects = Prefix(Stored) \cup Begun(k)
    BY DEF ClaimInv, AtMostOneHalfDone
  <2>3. k \in Nat
    BY <2>2, ItemParts
  <2>4. ASSUME NEW l \in {0} \cup {i[2] : i \in Items},
               effects' = Prefix(Stored) \cup Begun(l)
        PROVE  AtMostOneHalfDone'
    BY <2>1, <2>4 DEF AtMostOneHalfDone, Prefix
  <2>5. CASE effects' = effects
    BY <2>2, <2>4, <2>5
  <2>6. CASE ExecutesAtOnce(r)
    <3>1. /\ Executing(r) /\ InMigration(r) /\ ~ req[r].tx
          /\ req[r].direction = "up" /\ stmt[r] \in Nat
      BY <1>0, <2>6
         DEF ExecutesAtOnce, Exec, Executing, InMigration, UpOnly, TypeOK, LocalTypeOK
    <3>2. cur[r] \in Int /\ cur[r] + 1 \in Versions /\ Mig(r) = cur[r] + 1
      BY <3>1, GoesUp DEF Versions, Base
    <3>3. Item(r) = <<cur[r] + 1, stmt[r]>>
      BY <3>1, <3>2 DEF Item
    <3>4. /\ effects' = effects \cup {Item(r)}
          /\ Item(r) \in Content(cur[r] + 1) /\ Item(r) \in Items
      BY <2>6, <3>1, <3>2, ExecMoves, ItemParts DEF ExecutesAtOnce
    <3>5. cur[r] <= Stored
      BY <3>1 DEF ClaimInv
    <3>6. CASE cur[r] # Stored
      <4>1. Item(r) \in Prefix(Stored)
        BY <1>0, <3>2, <3>3, <3>4, <3>5, <3>6 DEF Prefix
      <4> QED
        BY <2>2, <2>5, <3>4, <4>1
    <3>7. CASE cur[r] = Stored /\ stmt[r] <= k
      <4>1. Item(r) \in Begun(k)
        BY <3>3, <3>4, <3>7
      <4> QED
        BY <2>2, <2>5, <3>4, <4>1
    <3>8. CASE cur[r] = Stored /\ ~ (stmt[r] <= k)
      <4>1. Moved(r) \subseteq effects
        BY <3>1, SeesMore DEF ReachedInv, LocalInv, PendInv, HeldBack
      <4>2. \A i \in Begun(stmt[r]) : i \in Moved(r) \/ i = Item(r)
        BY <3>1, <3>2, <3>3, <3>8, ItemParts DEF Moved
      <4>3. Begun(k) \subseteq Begun(stmt[r]) /\ Item(r) \in Begun(stmt[r])
        BY <2>3, <3>1, <3>3, <3>4, <3>8, ItemParts
      <4>4. effects' = Prefix(Stored) \cup Begun(stmt[r])
        BY <2>2, <3>4, <4>1, <4>2, <4>3
      <4>5. stmt[r] \in {i[2] : i \in Items}
        BY <3>3, <3>4
      <4> QED
        BY <2>4, <4>4, <4>5
    <3> QED
      BY <3>6, <3>7, <3>8
  <2> QED
    BY <1>2, <2>5, <2>6, Changes
<1> QED
  BY <1>1, <1>2

\* The ownership of migrations is inductive.
LEMMA NextClaims ==
  ASSUME UpOnly, AppendOnly, NoneRepeats, LocalInv, ReachedInv, ClaimInv, [Next]_vars
  PROVE  ClaimInv'
<1>0. TypeOK
  BY DEF LocalInv
<1>1. CASE UNCHANGED vars
  BY <1>1
     DEF vars, ClaimInv, AtMostOneHalfDone, Stored, Prefix, Executing, Claims, InMigration,
         Moved, Mig
<1>2. ASSUME NEW r \in Runners, Acts(r) PROVE ClaimInv'
  <2>1. Stored \in 0 .. N /\ Stored <= Stored'
    BY <1>2, VersionGrows
  <2>2. ASSUME NEW s \in Runners, Executing(s)' PROVE cur'[s] <= Stored'
    <3>1. Stored' \in Int
      BY NextLocal, NAssumption, <1>2
         DEF LocalInv, TypeOK, Stored, Versions, Base, NoRow, Next, Acts
    <3>2. CASE Executing(s) /\ cur'[s] = cur[s]
      <4>1. cur[s] \in Int /\ cur[s] <= Stored
        BY <1>0, <3>2, NAssumption DEF ClaimInv, TypeOK, LocalTypeOK, Versions, Base
      <4> QED
        BY <2>1, <3>1, <3>2, <4>1
    <3>3. CASE s # r
      BY <1>0, <1>2, <2>2, <3>2, <3>3, OthersKept
    <3>4. CASE s = r
      <4>1. Begin(r) \/ Exec(r) \/ WriteVersion(r) => Executing(r)
        BY DEF Begin, Exec, WriteVersion, Executing
      <4>2. Begin(r) => cur' = cur
        BY DEF Begin, local
      <4> QED
        BY <1>2, <2>2, <3>1, <3>2, <3>4, <4>1, <4>2, WhereNext, ExecMoves
    <3> QED
      BY <3>3, <3>4
  <2>3. ASSUME NEW s \in Runners, Claims(s)' PROVE cur'[s] = Stored'
    BY <1>2, <2>3, OwnerNext
  <2>4. ASSUME NEW s \in Runners, NEW u \in Runners, Claims(s)', Claims(u)' PROVE s = u
    <3>1. Claims(s) \/ (s = r /\ \A w \in Runners : ~ Claims(w))
      BY <1>2, <2>4, OwnerNext
    <3>2. Claims(u) \/ (u = r /\ \A w \in Runners : ~ Claims(w))
      BY <1>2, <2>4, OwnerNext
    <3> QED
      BY <3>1, <3>2 DEF ClaimInv
  <2>5. AtMostOneHalfDone'
    BY <1>2, HalfDoneGrows
  <2> QED
    BY <2>2, <2>3, <2>4, <2>5 DEF ClaimInv
<1> QED
  BY <1>1, <1>2 DEF Next, Acts, Done

\* All of it holds before the first call.
LEMMA InitClaims == Init => LocalInv /\ ReachedInv /\ ClaimInv
<1> SUFFICES ASSUME Init PROVE ClaimInv
  BY InitReached
<1>1. AtMostOneHalfDone
  <2>1. Stored = 0 /\ effects = {}
    BY DEF Init, Stored, Base
  <2>2. {i \in Items : i[1] = Stored + 1 /\ i[2] <= 0} = {} /\ Prefix(Stored) = {}
    BY <2>1, ItemParts, EmptyPrefix DEF Base
  <2> QED
    BY <2>1, <2>2 DEF AtMostOneHalfDone
<1> QED
  BY <1>1 DEF Init, ClaimInv, Claims, Executing, InMigration

\* When upgrades run at the same time, and each migration has a statement that
\* cannot be repeated, then at most the migration that follows the stored
\* version is in effect in part, after every failure and every death.
THEOREM OneHalfDone ==
  ASSUME UpOnly, AppendOnly, NoneRepeats
  PROVE  Spec => []AtMostOneHalfDone
<1>1. LocalInv /\ ReachedInv /\ ClaimInv /\ [Next]_vars
        => LocalInv' /\ ReachedInv' /\ ClaimInv'
  BY NextLocal, NextReached, NextClaims
<1>2. ClaimInv => AtMostOneHalfDone
  BY DEF ClaimInv
<1> QED
  BY InitClaims, <1>1, <1>2, PTL DEF Spec

\* Under the same assumptions no call takes the stored version back: one that
\* read an old version fails before it could store the one that follows it.
THEOREM NeverRegresses ==
  ASSUME UpOnly, AppendOnly, NoneRepeats
  PROVE  Spec => VersionNeverRegresses
<1>1. LocalInv /\ ReachedInv /\ ClaimInv /\ [Next]_vars
        => LocalInv' /\ ReachedInv' /\ ClaimInv'
  BY NextLocal, NextReached, NextClaims
<1>2. LocalInv /\ ReachedInv /\ ClaimInv /\ [Next]_vars => [row <= row']_row
  <2> SUFFICES ASSUME LocalInv, ReachedInv, ClaimInv, [Next]_vars, row' # row
               PROVE  row <= row'
    OBVIOUS
  <2>1. PICK r \in Runners : Acts(r)
    BY DEF Next, Acts, Done, vars
  <2> QED
    BY <2>1, VersionGrows
<1> QED
  BY InitClaims, <1>1, <1>2, PTL DEF Spec, VersionNeverRegresses
=============================================================================
