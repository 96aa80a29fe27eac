---------------------- MODULE SupervisorControl_proofs ----------------------
(***************************************************************************)
(* Proofs about SupervisorControl, for every number of callers and pids:   *)
(* the invariant ControlInv, and with it what lone starts guarantee.       *)
(***************************************************************************)
EXTENDS SupervisorControl, FiniteSetTheorems, TLAPS

(* Every step of a caller or of a process is one of the named actions. *)
LEMMA StepCases ==
  ASSUME [Next]_vars, NEW G, UNCHANGED vars => G,
         \A c \in Caller : Status(c) => G,
         \A c \in Caller : StatusUnlink(c) => G,
         \A c \in Caller : BeginStart(c) => G,
         \A c \in Caller : StartRead(c) => G,
         \A c \in Caller : StartUnlink(c) => G,
         \A c \in Caller : Spawn(c) => G,
         \A c \in Caller : SpawnFails(c) => G,
         \A c \in Caller : WriteOpen(c) => G,
         \A c \in Caller : Write(c) => G,
         \A c \in Caller : Stop(c) => G,
         \A c \in Caller : StopTerm(c) => G,
         \A c \in Caller : StopGone(c) => G,
         \A c \in Caller : StopKill(c) => G,
         \A c \in Caller : StopUnlink(c) => G,
         \A c \in Caller : Abandon(c) => G,
         \A p \in Pid : ProcessEnds(p) => G,
         \A p \in Pid : Reap(p) => G,
         \A p \in Pid : Recycle(p) => G,
         \A p \in Pid : StrangerEnds(p) => G
  PROVE  G
<1>1. CASE \E c \in Caller : Call(c) \/ Abandon(c)
  BY <1>1 DEF Call
<1>2. CASE \E p \in Pid : System(p)
  BY <1>2 DEF System
<1>3. QED
  BY <1>1, <1>2 DEF Next

(* Every step keeps the types. *)
LEMMA TypeStep ==
  ASSUME ControlTypeOK, \A x \in Caller : Locals(x), [Next]_vars
  PROVE  ControlTypeOK'
<1>0. UNCHANGED vars => ControlTypeOK'
  BY DEF vars, ControlTypeOK, Pc, StartPc, Locals
<1>1. ASSUME NEW c \in Caller, Status(c)
      PROVE  ControlTypeOK'
  BY <1>1, ControlAssumption DEF Status, Goto, Exists, FilePid, ControlTypeOK, Pc, StartPc, Locals
<1>2. ASSUME NEW c \in Caller, StatusUnlink(c)
      PROVE  ControlTypeOK'
  BY <1>2, ControlAssumption DEF StatusUnlink, Goto, Unlink, ControlTypeOK, Pc, StartPc, Locals
<1>3. ASSUME NEW c \in Caller, BeginStart(c)
      PROVE  ControlTypeOK'
  BY <1>3, ControlAssumption DEF BeginStart, Goto, ControlTypeOK, Pc, StartPc, Locals
<1>4. ASSUME NEW c \in Caller, StartRead(c)
      PROVE  ControlTypeOK'
  BY <1>4, ControlAssumption DEF StartRead, Goto, Exists, FilePid, ControlTypeOK, Pc, StartPc, Locals
<1>5. ASSUME NEW c \in Caller, StartUnlink(c)
      PROVE  ControlTypeOK'
  BY <1>5, ControlAssumption DEF StartUnlink, Goto, Unlink, ControlTypeOK, Pc, StartPc, Locals
<1>6. ASSUME NEW c \in Caller, Spawn(c)
      PROVE  ControlTypeOK'
  BY <1>6, ControlAssumption DEF Spawn, Goto, ControlTypeOK, Pc, StartPc, Locals
<1>7. ASSUME NEW c \in Caller, SpawnFails(c)
      PROVE  ControlTypeOK'
  BY <1>7, ControlAssumption DEF SpawnFails, Goto, Return, ControlTypeOK, Pc, StartPc, Locals
<1>8. ASSUME NEW c \in Caller, WriteOpen(c)
      PROVE  ControlTypeOK'
  BY <1>8, ControlAssumption DEF WriteOpen, Goto, ControlTypeOK, Pc, StartPc, Locals
<1>9. ASSUME NEW c \in Caller, Write(c)
      PROVE  ControlTypeOK'
  BY <1>9, ControlAssumption DEF Write, Goto, Return, ControlTypeOK, Pc, StartPc, Locals
<1>10. ASSUME NEW c \in Caller, Stop(c)
      PROVE  ControlTypeOK'
  BY <1>10, ControlAssumption DEF Stop, Goto, Exists, FilePid, ControlTypeOK, Pc, StartPc, Locals
<1>11. ASSUME NEW c \in Caller, StopTerm(c)
      PROVE  ControlTypeOK'
  BY <1>11, ControlAssumption DEF StopTerm, Goto, Exists, Signalled, ControlTypeOK, Pc, StartPc, Locals
<1>12. ASSUME NEW c \in Caller, StopGone(c)
      PROVE  ControlTypeOK'
  BY <1>12, ControlAssumption DEF StopGone, Goto, Exists, ControlTypeOK, Pc, StartPc, Locals
<1>13. ASSUME NEW c \in Caller, StopKill(c)
      PROVE  ControlTypeOK'
  BY <1>13, ControlAssumption DEF StopKill, Goto, Exists, Signalled, ControlTypeOK, Pc, StartPc, Locals
<1>14. ASSUME NEW c \in Caller, StopUnlink(c)
      PROVE  ControlTypeOK'
  BY <1>14, ControlAssumption DEF StopUnlink, Goto, Unlink, ControlTypeOK, Pc, StartPc, Locals
<1>15. ASSUME NEW c \in Caller, Abandon(c)
      PROVE  ControlTypeOK'
  BY <1>15, ControlAssumption DEF Abandon, ControlTypeOK, Pc, StartPc, Locals
<1>16. ASSUME NEW p \in Pid, ProcessEnds(p)
      PROVE  ControlTypeOK'
  BY <1>16, ControlAssumption DEF ProcessEnds, ControlTypeOK, Pc, StartPc, Locals
<1>17. ASSUME NEW p \in Pid, Reap(p)
      PROVE  ControlTypeOK'
  BY <1>17, ControlAssumption DEF Reap, ControlTypeOK, Pc, StartPc, Locals
<1>18. ASSUME NEW p \in Pid, Recycle(p)
      PROVE  ControlTypeOK'
  BY <1>18, ControlAssumption DEF Recycle, ControlTypeOK, Pc, StartPc, Locals
<1>19. ASSUME NEW p \in Pid, StrangerEnds(p)
      PROVE  ControlTypeOK'
  BY <1>19, ControlAssumption DEF StrangerEnds, ControlTypeOK, Pc, StartPc, Locals
<1>20. QED
  BY <1>0, <1>1, <1>2, <1>3, <1>4, <1>5, <1>6, <1>7, <1>8, <1>9, <1>10, <1>11, <1>12, <1>13, <1>14, <1>15, <1>16, <1>17, <1>18, <1>19, StepCases

(* What a caller knows of its own child and of the pid it read stays true. *)
LEMMA LocalsStep ==
  ASSUME ControlTypeOK, \A x \in Caller : Locals(x), [Next]_vars
  PROVE  (\A x \in Caller : Locals(x))'
<1>0. UNCHANGED vars => (\A x \in Caller : Locals(x))'
  BY DEF vars, ControlTypeOK, Pc, StartPc, Locals
<1>1. ASSUME NEW c \in Caller, Status(c)
      PROVE  (\A x \in Caller : Locals(x))'
  BY <1>1, ControlAssumption DEF Status, Goto, Exists, FilePid, ControlTypeOK, Pc, StartPc, Locals
<1>2. ASSUME NEW c \in Caller, StatusUnlink(c)
      PROVE  (\A x \in Caller : Locals(x))'
  BY <1>2, ControlAssumption DEF StatusUnlink, Goto, Unlink, ControlTypeOK, Pc, StartPc, Locals
<1>3. ASSUME NEW c \in Caller, BeginStart(c)
      PROVE  (\A x \in Caller : Locals(x))'
  BY <1>3, ControlAssumption DEF BeginStart, Goto, ControlTypeOK, Pc, StartPc, Locals
<1>4. ASSUME NEW c \in Caller, StartRead(c)
      PROVE  (\A x \in Caller : Locals(x))'
  BY <1>4, ControlAssumption DEF StartRead, Goto, Exists, FilePid, ControlTypeOK, Pc, StartPc, Locals
<1>5. ASSUME NEW c \in Caller, StartUnlink(c)
      PROVE  (\A x \in Caller : Locals(x))'
  BY <1>5, ControlAssumption DEF StartUnlink, Goto, Unlink, ControlTypeOK, Pc, StartPc, Locals
<1>6. ASSUME NEW c \in Caller, Spawn(c)
      PROVE  (\A x \in Caller : Locals(x))'
  BY <1>6, ControlAssumption DEF Spawn, Goto, ControlTypeOK, Pc, StartPc, Locals
<1>7. ASSUME NEW c \in Caller, SpawnFails(c)
      PROVE  (\A x \in Caller : Locals(x))'
  BY <1>7, ControlAssumption DEF SpawnFails, Goto, Return, ControlTypeOK, Pc, StartPc, Locals
<1>8. ASSUME NEW c \in Caller, WriteOpen(c)
      PROVE  (\A x \in Caller : Locals(x))'
  BY <1>8, ControlAssumption DEF WriteOpen, Goto, ControlTypeOK, Pc, StartPc, Locals
<1>9. ASSUME NEW c \in Caller, Write(c)
      PROVE  (\A x \in Caller : Locals(x))'
  BY <1>9, ControlAssumption DEF Write, Goto, Return, ControlTypeOK, Pc, StartPc, Locals
<1>10. ASSUME NEW c \in Caller, Stop(c)
      PROVE  (\A x \in Caller : Locals(x))'
  BY <1>10, ControlAssumption DEF Stop, Goto, Exists, FilePid, ControlTypeOK, Pc, StartPc, Locals
<1>11. ASSUME NEW c \in Caller, StopTerm(c)
      PROVE  (\A x \in Caller : Locals(x))'
  BY <1>11, ControlAssumption DEF StopTerm, Goto, Exists, Signalled, ControlTypeOK, Pc, StartPc, Locals
<1>12. ASSUME NEW c \in Caller, StopGone(c)
      PROVE  (\A x \in Caller : Locals(x))'
  BY <1>12, ControlAssumption DEF StopGone, Goto, Exists, ControlTypeOK, Pc, StartPc, Locals
<1>13. ASSUME NEW c \in Caller, StopKill(c)
      PROVE  (\A x \in Caller : Locals(x))'
  BY <1>13, ControlAssumption DEF StopKill, Goto, Exists, Signalled, ControlTypeOK, Pc, StartPc, Locals
<1>14. ASSUME NEW c \in Caller, StopUnlink(c)
      PROVE  (\A x \in Caller : Locals(x))'
  BY <1>14, ControlAssumption DEF StopUnlink, Goto, Unlink, ControlTypeOK, Pc, StartPc, Locals
<1>15. ASSUME NEW c \in Caller, Abandon(c)
      PROVE  (\A x \in Caller : Locals(x))'
  BY <1>15, ControlAssumption DEF Abandon, ControlTypeOK, Pc, StartPc, Locals
<1>16. ASSUME NEW p \in Pid, ProcessEnds(p)
      PROVE  (\A x \in Caller : Locals(x))'
  BY <1>16, ControlAssumption DEF ProcessEnds, ControlTypeOK, Pc, StartPc, Locals
<1>17. ASSUME NEW p \in Pid, Reap(p)
      PROVE  (\A x \in Caller : Locals(x))'
  BY <1>17, ControlAssumption DEF Reap, ControlTypeOK, Pc, StartPc, Locals
<1>18. ASSUME NEW p \in Pid, Recycle(p)
      PROVE  (\A x \in Caller : Locals(x))'
  BY <1>18, ControlAssumption DEF Recycle, ControlTypeOK, Pc, StartPc, Locals
<1>19. ASSUME NEW p \in Pid, StrangerEnds(p)
      PROVE  (\A x \in Caller : Locals(x))'
  BY <1>19, ControlAssumption DEF StrangerEnds, ControlTypeOK, Pc, StartPc, Locals
<1>20. QED
  BY <1>0, <1>1, <1>2, <1>3, <1>4, <1>5, <1>6, <1>7, <1>8, <1>9, <1>10, <1>11, <1>12, <1>13, <1>14, <1>15, <1>16, <1>17, <1>18, <1>19, StepCases

(* What holds as long as every start ran alone and to its end. *)
AloneInv ==
  /\ ~Overlap(pc)
  /\ \A c \in Caller : Knows(c)
  /\ \A p \in Serving : pidFile = p \/ \E c \in Caller : child[c] = p
  /\ \A p, q \in Serving : p = q

(* A step that keeps starts alone keeps what they rely on. *)
LEMMA AloneStep ==
  ASSUME ControlTypeOK, \A x \in Caller : Locals(x), clean => AloneInv, clean', [Next]_vars
  PROVE  AloneInv'
<1>0. UNCHANGED vars => AloneInv'
  BY DEF vars, ControlTypeOK, Locals, AloneInv, Overlap, Knows, Serving, StartPc
<1>1. ASSUME NEW c \in Caller, Status(c)
      PROVE  AloneInv'
  <2>1. clean /\ AloneInv /\ ~Overlap(pc)'
    BY <1>1 DEF Status, Goto, Exists, FilePid, AloneInv, Overlap, StartPc, ControlTypeOK, Locals
  <2>2. \A x \in Caller \ {c} : pc'[x] = pc[x] /\ child'[x] = child[x] /\ seen'[x] = seen[x]
    BY <1>1 DEF Status, Goto, Exists, FilePid, ControlTypeOK
  <2>3. Knows(c)'
    BY <1>1, <2>1, <2>2, ControlAssumption DEF Status, Goto, Exists, FilePid, ControlTypeOK, Locals, AloneInv, Knows, Serving, Overlap, StartPc
  <2>4. ASSUME NEW x \in Caller \ {c}
        PROVE  Knows(x)'
    BY <1>1, <2>1, <2>2, ControlAssumption DEF Status, Goto, Exists, FilePid, ControlTypeOK, Locals, AloneInv, Knows, Serving, Overlap, StartPc
  <2>5. (\A p \in Serving : pidFile = p \/ \E x \in Caller : child[x] = p)'
    BY <1>1, <2>1, <2>2, ControlAssumption DEF Status, Goto, Exists, FilePid, ControlTypeOK, Locals, AloneInv, Knows, Serving
  <2>6. (\A p, q \in Serving : p = q)'
    BY <1>1, <2>1 DEF Status, Goto, Exists, FilePid, AloneInv, Serving
  <2>7. QED
    BY <2>1, <2>3, <2>4, <2>5, <2>6 DEF AloneInv
<1>2. ASSUME NEW c \in Caller, StatusUnlink(c)
      PROVE  AloneInv'
  BY <1>2, ControlAssumption DEF StatusUnlink, Goto, Unlink, ControlTypeOK, Locals, AloneInv, Overlap, Knows, Serving, StartPc
<1>3. ASSUME NEW c \in Caller, BeginStart(c)
      PROVE  AloneInv'
  <2>1. clean /\ AloneInv /\ ~Overlap(pc)'
    BY <1>3 DEF BeginStart, Goto, AloneInv, Overlap, StartPc, ControlTypeOK, Locals
  <2>2. \A x \in Caller \ {c} : pc'[x] = pc[x] /\ child'[x] = child[x] /\ seen'[x] = seen[x]
    BY <1>3 DEF BeginStart, Goto, ControlTypeOK
  <2>3. Knows(c)'
    BY <1>3, <2>1, <2>2, ControlAssumption DEF BeginStart, Goto, ControlTypeOK, Locals, AloneInv, Knows, Serving, Overlap, StartPc
  <2>4. ASSUME NEW x \in Caller \ {c}
        PROVE  Knows(x)'
    BY <1>3, <2>1, <2>2, ControlAssumption DEF BeginStart, Goto, ControlTypeOK, Locals, AloneInv, Knows, Serving, Overlap, StartPc
  <2>5. (\A p \in Serving : pidFile = p \/ \E x \in Caller : child[x] = p)'
    BY <1>3, <2>1, <2>2, ControlAssumption DEF BeginStart, Goto, ControlTypeOK, Locals, AloneInv, Knows, Serving
  <2>6. (\A p, q \in Serving : p = q)'
    BY <1>3, <2>1 DEF BeginStart, Goto, AloneInv, Serving
  <2>7. QED
    BY <2>1, <2>3, <2>4, <2>5, <2>6 DEF AloneInv
<1>4. ASSUME NEW c \in Caller, StartRead(c)
      PROVE  AloneInv'
  <2>1. clean /\ AloneInv /\ ~Overlap(pc)'
    BY <1>4 DEF StartRead, Goto, Exists, FilePid, AloneInv, Overlap, StartPc, ControlTypeOK, Locals
  <2>2. \A x \in Caller \ {c} : pc'[x] = pc[x] /\ child'[x] = child[x] /\ seen'[x] = seen[x]
    BY <1>4 DEF StartRead, Goto, Exists, FilePid, ControlTypeOK
  <2>9. \A x \in Caller : child[x] = NoPid
    BY <1>4, <2>1, ControlAssumption DEF StartRead, AloneInv, Overlap, StartPc, Locals, ControlTypeOK
  <2>3. Knows(c)'
    BY <1>4, <2>1, <2>2, ControlAssumption, <2>9 DEF StartRead, Goto, Exists, FilePid, ControlTypeOK, Locals, AloneInv, Knows, Serving, Overlap, StartPc
  <2>4. ASSUME NEW x \in Caller \ {c}
        PROVE  Knows(x)'
    BY <1>4, <2>1, <2>2, ControlAssumption, <2>9 DEF StartRead, Goto, Exists, FilePid, ControlTypeOK, Locals, AloneInv, Knows, Serving, Overlap, StartPc
  <2>5. (\A p \in Serving : pidFile = p \/ \E x \in Caller : child[x] = p)'
    BY <1>4, <2>1, <2>2, ControlAssumption, <2>9 DEF StartRead, Goto, Exists, FilePid, ControlTypeOK, Locals, AloneInv, Knows, Serving
  <2>6. (\A p, q \in Serving : p = q)'
    BY <1>4, <2>1 DEF StartRead, Goto, Exists, FilePid, AloneInv, Serving
  <2>7. QED
    BY <2>1, <2>3, <2>4, <2>5, <2>6 DEF AloneInv
<1>5. ASSUME NEW c \in Caller, StartUnlink(c)
      PROVE  AloneInv'
  BY <1>5, ControlAssumption DEF StartUnlink, Goto, Unlink, ControlTypeOK, Locals, AloneInv, Overlap, Knows, Serving, StartPc
<1>6. ASSUME NEW c \in Caller, Spawn(c)
      PROVE  AloneInv'
  BY <1>6, ControlAssumption DEF Spawn, Goto, ControlTypeOK, Locals, AloneInv, Overlap, Knows, Serving, StartPc
<1>7. ASSUME NEW c \in Caller, SpawnFails(c)
      PROVE  AloneInv'
  BY <1>7, ControlAssumption DEF SpawnFails, Goto, Return, ControlTypeOK, Locals, AloneInv, Overlap, Knows, Serving, StartPc
<1>8. ASSUME NEW c \in Caller, WriteOpen(c)
      PROVE  AloneInv'
  <2>1. clean /\ AloneInv /\ ~Overlap(pc)'
    BY <1>8 DEF WriteOpen, Goto, AloneInv, Overlap, StartPc, ControlTypeOK, Locals
  <2>2. \A x \in Caller \ {c} : pc'[x] = pc[x] /\ child'[x] = child[x] /\ seen'[x] = seen[x]
    BY <1>8 DEF WriteOpen, Goto, ControlTypeOK
  <2>3. Knows(c)'
    BY <1>8, <2>1, <2>2, ControlAssumption DEF WriteOpen, Goto, ControlTypeOK, Locals, AloneInv, Knows, Serving, Overlap, StartPc
  <2>4. ASSUME NEW x \in Caller \ {c}
        PROVE  Knows(x)'
    BY <1>8, <2>1, <2>2, ControlAssumption DEF WriteOpen, Goto, ControlTypeOK, Locals, AloneInv, Knows, Serving, Overlap, StartPc
  <2>5. (\A p \in Serving : pidFile = p \/ \E x \in Caller : child[x] = p)'
    BY <1>8, <2>1, <2>2, ControlAssumption DEF WriteOpen, Goto, ControlTypeOK, Locals, AloneInv, Knows, Serving
  <2>6. (\A p, q \in Serving : p = q)'
    BY <1>8, <2>1 DEF WriteOpen, Goto, AloneInv, Serving
  <2>7. QED
    BY <2>1, <2>3, <2>4, <2>5, <2>6 DEF AloneInv
<1>9. ASSUME NEW c \in Caller, Write(c)
      PROVE  AloneInv'
  <2>1. clean /\ AloneInv /\ ~Overlap(pc)'
    BY <1>9 DEF Write, Goto, Return, AloneInv, Overlap, StartPc, ControlTypeOK, Locals
  <2>2. \A x \in Caller \ {c} : pc'[x] = pc[x] /\ child'[x] = child[x] /\ seen'[x] = seen[x]
    BY <1>9 DEF Write, Goto, Return, ControlTypeOK
  <2>3. Knows(c)'
    BY <1>9, <2>1, <2>2, ControlAssumption DEF Write, Goto, Return, ControlTypeOK, Locals, AloneInv, Knows, Serving, Overlap, StartPc
  <2>4. ASSUME NEW x \in Caller \ {c}
        PROVE  Knows(x)'
    BY <1>9, <2>1, <2>2, ControlAssumption DEF Write, Goto, Return, ControlTypeOK, Locals, AloneInv, Knows, Serving, Overlap, StartPc
  <2>5. (\A p \in Serving : pidFile = p \/ \E x \in Caller : child[x] = p)'
    BY <1>9, <2>1, <2>2, ControlAssumption DEF Write, Goto, Return, ControlTypeOK, Locals, AloneInv, Knows, Serving
  <2>6. (\A p, q \in Serving : p = q)'
    BY <1>9, <2>1 DEF Write, Goto, Return, AloneInv, Serving
  <2>7. QED
    BY <2>1, <2>3, <2>4, <2>5, <2>6 DEF AloneInv
<1>10. ASSUME NEW c \in Caller, Stop(c)
      PROVE  AloneInv'
  <2>1. clean /\ AloneInv /\ ~Overlap(pc)'
    BY <1>10 DEF Stop, Goto, Exists, FilePid, AloneInv, Overlap, StartPc, ControlTypeOK, Locals
  <2>2. \A x \in Caller \ {c} : pc'[x] = pc[x] /\ child'[x] = child[x] /\ seen'[x] = seen[x]
    BY <1>10 DEF Stop, Goto, Exists, FilePid, ControlTypeOK
  <2>3. Knows(c)'
    BY <1>10, <2>1, <2>2, ControlAssumption DEF Stop, Goto, Exists, FilePid, ControlTypeOK, Locals, AloneInv, Knows, Serving, Overlap, StartPc
  <2>4. ASSUME NEW x \in Caller \ {c}
        PROVE  Knows(x)'
    BY <1>10, <2>1, <2>2, ControlAssumption DEF Stop, Goto, Exists, FilePid, ControlTypeOK, Locals, AloneInv, Knows, Serving, Overlap, StartPc
  <2>5. (\A p \in Serving : pidFile = p \/ \E x \in Caller : child[x] = p)'
    BY <1>10, <2>1, <2>2, ControlAssumption DEF Stop, Goto, Exists, FilePid, ControlTypeOK, Locals, AloneInv, Knows, Serving
  <2>6. (\A p, q \in Serving : p = q)'
    BY <1>10, <2>1 DEF Stop, Goto, Exists, FilePid, AloneInv, Serving
  <2>7. QED
    BY <2>1, <2>3, <2>4, <2>5, <2>6 DEF AloneInv
<1>11. ASSUME NEW c \in Caller, StopTerm(c)
      PROVE  AloneInv'
  BY <1>11, ControlAssumption DEF StopTerm, Goto, Exists, Signalled, ControlTypeOK, Locals, AloneInv, Overlap, Knows, Serving, StartPc
<1>12. ASSUME NEW c \in Caller, StopGone(c)
      PROVE  AloneInv'
  BY <1>12, ControlAssumption DEF StopGone, Goto, Exists, ControlTypeOK, Locals, AloneInv, Overlap, Knows, Serving, StartPc
<1>13. ASSUME NEW c \in Caller, StopKill(c)
      PROVE  AloneInv'
  BY <1>13, ControlAssumption DEF StopKill, Goto, Exists, Signalled, ControlTypeOK, Locals, AloneInv, Overlap, Knows, Serving, StartPc
<1>14. ASSUME NEW c \in Caller, StopUnlink(c)
      PROVE  AloneInv'
  <2>1. clean /\ AloneInv /\ ~Overlap(pc)'
    BY <1>14 DEF StopUnlink, Goto, Unlink, AloneInv, Overlap, StartPc, ControlTypeOK, Locals
  <2>2. \A x \in Caller \ {c} : pc'[x] = pc[x] /\ child'[x] = child[x] /\ seen'[x] = seen[x]
    BY <1>14 DEF StopUnlink, Goto, Unlink, ControlTypeOK
  <2>3. Knows(c)'
    BY <1>14, <2>1, <2>2, ControlAssumption DEF StopUnlink, Goto, Unlink, ControlTypeOK, Locals, AloneInv, Knows, Serving, Overlap, StartPc
  <2>4. ASSUME NEW x \in Caller \ {c}
        PROVE  Knows(x)'
    BY <1>14, <2>1, <2>2, ControlAssumption DEF StopUnlink, Goto, Unlink, ControlTypeOK, Locals, AloneInv, Knows, Serving, Overlap, StartPc
  <2>5. (\A p \in Serving : pidFile = p \/ \E x \in Caller : child[x] = p)'
    BY <1>14, <2>1, <2>2, ControlAssumption DEF StopUnlink, Goto, Unlink, ControlTypeOK, Locals, AloneInv, Knows, Serving
  <2>6. (\A p, q \in Serving : p = q)'
    BY <1>14, <2>1 DEF StopUnlink, Goto, Unlink, AloneInv, Serving
  <2>7. QED
    BY <2>1, <2>3, <2>4, <2>5, <2>6 DEF AloneInv
<1>15. ASSUME NEW c \in Caller, Abandon(c)
      PROVE  AloneInv'
  <2>1. clean /\ AloneInv /\ ~Overlap(pc)'
    BY <1>15 DEF Abandon, AloneInv, Overlap, StartPc, ControlTypeOK, Locals
  <2>2. \A x \in Caller \ {c} : pc'[x] = pc[x] /\ child'[x] = child[x] /\ seen'[x] = seen[x]
    BY <1>15 DEF Abandon, ControlTypeOK
  <2>9. child[c] = NoPid /\ child' = child
    BY <1>15 DEF Abandon, ControlTypeOK
  <2>3. Knows(c)'
    BY <1>15, <2>1, <2>2, ControlAssumption, <2>9 DEF Abandon, ControlTypeOK, Locals, AloneInv, Knows, Serving, Overlap, StartPc
  <2>4. ASSUME NEW x \in Caller \ {c}
        PROVE  Knows(x)'
    BY <1>15, <2>1, <2>2, ControlAssumption, <2>9 DEF Abandon, ControlTypeOK, Locals, AloneInv, Knows, Serving, Overlap, StartPc
  <2>5. (\A p \in Serving : pidFile = p \/ \E x \in Caller : child[x] = p)'
    BY <1>15, <2>1, <2>2, ControlAssumption, <2>9 DEF Abandon, ControlTypeOK, Locals, AloneInv, Knows, Serving
  <2>6. (\A p, q \in Serving : p = q)'
    BY <1>15, <2>1 DEF Abandon, AloneInv, Serving
  <2>7. QED
    BY <2>1, <2>3, <2>4, <2>5, <2>6 DEF AloneInv
<1>16. ASSUME NEW p \in Pid, ProcessEnds(p)
      PROVE  AloneInv'
  BY <1>16, ControlAssumption DEF ProcessEnds, ControlTypeOK, Locals, AloneInv, Overlap, Knows, Serving, StartPc
<1>17. ASSUME NEW p \in Pid, Reap(p)
      PROVE  AloneInv'
  BY <1>17, ControlAssumption DEF Reap, ControlTypeOK, Locals, AloneInv, Overlap, Knows, Serving, StartPc
<1>18. ASSUME NEW p \in Pid, Recycle(p)
      PROVE  AloneInv'
  BY <1>18, ControlAssumption DEF Recycle, ControlTypeOK, Locals, AloneInv, Overlap, Knows, Serving, StartPc
<1>19. ASSUME NEW p \in Pid, StrangerEnds(p)
      PROVE  AloneInv'
  BY <1>19, ControlAssumption DEF StrangerEnds, ControlTypeOK, Locals, AloneInv, Overlap, Knows, Serving, StartPc
<1>20. QED
  BY <1>0, <1>1, <1>2, <1>3, <1>4, <1>5, <1>6, <1>7, <1>8, <1>9, <1>10, <1>11, <1>12, <1>13, <1>14, <1>15, <1>16, <1>17, <1>18, <1>19, StepCases

(* The invariant holds initially and in every step. *)
LEMMA InitHolds == Init => ControlInv
BY ControlAssumption DEF Init, ControlInv, ControlTypeOK, Pc, Locals, Overlap, StartPc, Knows, Serving

LEMMA StepHolds == ControlInv /\ [Next]_vars => ControlInv'
<1> SUFFICES ASSUME ControlInv, [Next]_vars PROVE ControlInv'
  OBVIOUS
<1>1. ControlTypeOK /\ (\A c \in Caller : Locals(c)) /\ (clean => AloneInv)
  BY DEF ControlInv, AloneInv
<1>2. ControlTypeOK' /\ (\A c \in Caller : Locals(c))'
  BY <1>1, TypeStep, LocalsStep
<1>3. clean' => AloneInv'
  BY <1>1, AloneStep
<1>4. QED
  BY <1>2, <1>3 DEF ControlInv, AloneInv

(* ControlInv is an invariant, with or without the fairness of the calls. *)
THEOREM ControlInvariance == Spec => []ControlInv
<1>1. Safety => []ControlInv
  BY InitHolds, StepHolds, PTL DEF Safety
<1>2. Spec => Safety
  BY PTL DEF Spec
<1>3. QED
  BY <1>1, <1>2, PTL

(* The control state is well-typed. *)
THEOREM ControlTypeCorrect == Spec => []ControlTypeOK
<1>1. ControlInv => ControlTypeOK
  BY DEF ControlInv
<1>2. QED
  BY <1>1, ControlInvariance, PTL

(* For any number of callers and pids, starts that run alone and to their  *)
(* end never leave two supervisors running, nor one the pid file loses.    *)
THEOREM OneSupervisor == Spec => []LoneStartsKeepOneSupervisor
<1>1. ASSUME ControlInv, clean
      PROVE  Cardinality(Serving) <= 1
  <2>1. CASE Serving = {}
    BY <2>1, FS_EmptySet
  <2>2. ASSUME NEW p \in Serving
        PROVE  Cardinality(Serving) <= 1
    <3>1. Serving = {p}
      BY <1>1, <2>2 DEF ControlInv
    <3>2. QED
      BY <3>1, FS_Singleton
  <2>3. QED
    BY <2>1, <2>2
<1>2. ControlInv => LoneStartsKeepOneSupervisor
  BY <1>1 DEF ControlInv, LoneStartsKeepOneSupervisor
<1>3. QED
  BY <1>2, ControlInvariance, PTL

(* A stop that no start overlaps reaches its last step with nothing left   *)
(* running, whatever other stops and status requests did to the pid file.  *)
THEOREM StopIsComplete == Spec => []StopLeavesNothingRunning
<1>1. ControlInv => StopLeavesNothingRunning
  BY DEF ControlInv, Knows, StopLeavesNothingRunning
<1>2. QED
  BY <1>1, ControlInvariance, PTL

=============================================================================
