--------------------------- MODULE RawArchiveProofs ---------------------------
(***************************************************************************)
(* For every set of source hours, archive contents and processes: rows keep *)
(* their identity, and unprocessed bytes stay in place.  For one process,   *)
(* however often it dies: the bytes a row claims survive.                   *)
(***************************************************************************)
EXTENDS RawArchive, TLAPS

-----------------------------------------------------------------------------
(* Type correctness.                                                        *)

(* No action leaves the types.                                              *)
LEMMA TypeStep ==
  ASSUME TypeOK, [Next]_vars
  PROVE  TypeOK'
<1>1. ASSUME NEW a \in Apps, Boot(a) PROVE TypeOK'
  BY <1>1 DEF Boot, TypeOK, Becomes, Token, Kind, Status, Content, row, disk, world, op
<1>2. ASSUME NEW a \in Apps, BootDone(a) PROVE TypeOK'
  BY <1>2 DEF BootDone, TypeOK, Becomes, Token, Kind, Status, Content, row, disk, world, op, txn
<1>3. ASSUME NEW a \in Apps, Reuse(a) PROVE TypeOK'
  BY ContentAssumption, <1>3 DEF Reuse, TypeOK, Becomes, Token, Kind, Status, Content, row,
     disk, world, txn
<1>4. ASSUME NEW a \in Apps, DiscardInvalid(a) PROVE TypeOK'
  BY ContentAssumption, <1>4 DEF DiscardInvalid, TypeOK, Token, Kind, Status, Content, row,
     world, op, txn
<1>5. ASSUME NEW a \in Apps, Download(a) PROVE TypeOK'
  BY <1>5 DEF Download, TypeOK, Becomes, Token, Kind, Status, Content, row, disk, world, txn
<1>6. ASSUME NEW a \in Apps, Publish(a) PROVE TypeOK'
  BY <1>6 DEF Publish, TypeOK, Becomes, Token, Kind, Status, Content, row, world, op, txn
<1>7. ASSUME NEW a \in Apps, PublishConflict(a) PROVE TypeOK'
  BY ContentAssumption, <1>7 DEF PublishConflict, TypeOK, Becomes, Token, Kind, Status, Content,
     row, world, op, txn
<1>8. ASSUME NEW a \in Apps, FetchMissing(a) PROVE TypeOK'
  BY <1>8 DEF FetchMissing, TypeOK, Becomes, Token, Kind, Status, Content, row, disk, world, op,
     txn
<1>9. ASSUME NEW a \in Apps, FetchFails(a) PROVE TypeOK'
  BY <1>9 DEF FetchFails, TypeOK, Becomes, Token, Kind, Status, Content, row, disk, world, op,
     txn
<1>10. ASSUME NEW a \in Apps, Record(a) PROVE TypeOK'
  BY ContentAssumption, <1>10 DEF Record, TypeOK, Becomes, Token, Kind, Status, Content,
     Accepts, disk, world, op, txn
<1>11. ASSUME NEW a \in Apps, RecordFailure(a) PROVE TypeOK'
  BY <1>11 DEF RecordFailure, TypeOK, Becomes, Token, Kind, Status, Content, disk, world, op,
     txn
<1>12. ASSUME NEW a \in Apps, FailureLost(a) PROVE TypeOK'
  BY <1>12 DEF FailureLost, TypeOK, Becomes, Token, Kind, Status, Content, row, disk, world, op,
     txn
<1>13. ASSUME NEW a \in Apps, PruneCommit(a) PROVE TypeOK'
  BY <1>13 DEF PruneCommit, TypeOK, Becomes, Ends, Detach, Token, Kind, Status, Content, disk,
     world, op
<1>14. ASSUME NEW a \in Apps, PruneAbort(a) PROVE TypeOK'
  BY <1>14 DEF PruneAbort, TypeOK, Becomes, Ends, Detach, Token, Kind, Status, Content, disk,
     world, op
<1>15. ASSUME NEW a \in Apps, PruneDone(a) PROVE TypeOK'
  BY <1>15 DEF PruneDone, TypeOK, Becomes, Token, Kind, Status, Content, row, disk, world, op,
     txn
<1>16. ASSUME NEW a \in Apps, RepairCommit(a) PROVE TypeOK'
  BY <1>16 DEF RepairCommit, TypeOK, Becomes, Ends, Withdraw, Token, Kind, Status, Content,
     disk, world, op
<1>17. ASSUME NEW a \in Apps, RepairAbort(a) PROVE TypeOK'
  BY ContentAssumption, <1>17 DEF RepairAbort, TypeOK, Becomes, Ends, Withdraw, Token, Kind,
     Status, Content, disk, world, op
<1>18. ASSUME NEW a \in Apps, RepairRestore(a) PROVE TypeOK'
  BY ContentAssumption, <1>18 DEF RepairRestore, TypeOK, Becomes, Token, Kind, Status, Content,
     row, world, op, txn
<1>19. ASSUME NEW a \in Apps, RepairRestoreFails(a) PROVE TypeOK'
  BY <1>19 DEF RepairRestoreFails, TypeOK, Becomes, Token, Kind, Status, Content, row, disk,
     world, op, txn
<1>20. ASSUME NEW a \in Apps, Crash(a) PROVE TypeOK'
  BY <1>20 DEF Crash, TypeOK, Becomes, Ends, Token, Kind, Status, Content, row, disk, world, op
<1>21. ASSUME NEW a \in Apps, NEW t \in moved[a], Reconcile(a, t) PROVE TypeOK'
  BY <1>21 DEF Reconcile, TypeOK, Token, Kind, Status, Content, Reconcilable, row, world, op
<1>22. ASSUME NEW a \in Apps, NEW t \in moved[a], ReconcileFails(a, t) PROVE TypeOK'
  BY <1>22 DEF ReconcileFails, TypeOK, Token, Kind, Status, Content, Reconcilable, row, disk,
     world, op
<1>23. ASSUME NEW a \in Apps, NEW t \in moved[a], Restore(a, t) PROVE TypeOK'
  BY <1>23 DEF Restore, TypeOK, Token, Kind, Status, Content, row, world, op
<1>24. ASSUME NEW a \in Apps, NEW t \in moved[a], Unlink(a, t) PROVE TypeOK'
  BY <1>24 DEF Unlink, TypeOK, Token, Kind, Status, Content, row, world, op
<1>25. ASSUME NEW a \in Apps, NEW t \in moved[a], LeaveHidden(a, t) PROVE TypeOK'
  BY <1>25 DEF LeaveHidden, TypeOK, Token, Kind, Status, Content, row, disk, world, op
<1>26. ASSUME NEW a \in Apps, NEW h \in Hours, Admit(a, h) PROVE TypeOK'
  BY <1>26 DEF Admit, TypeOK, Becomes, Token, Kind, Status, Content, disk, world, txn
<1>27. ASSUME NEW a \in Apps, NEW h \in Hours, RecoverStale(a, h) PROVE TypeOK'
  BY <1>27 DEF RecoverStale, TypeOK, Token, Kind, Status, Content, disk, world, op, txn
<1>28. ASSUME NEW a \in Apps, NEW h \in Hours, Process(a, h) PROVE TypeOK'
  BY <1>28 DEF Process, TypeOK, Token, Kind, Status, Content, disk, world, op, txn
<1>29. ASSUME NEW a \in Apps, NEW h \in Hours, PruneSkip(a, h) PROVE TypeOK'
  BY <1>29 DEF PruneSkip, TypeOK, Token, Kind, Status, Content, row, disk, world, op
<1>30. ASSUME NEW a \in Apps, NEW h \in Hours, RepairMove(a, h) PROVE TypeOK'
  BY ContentAssumption, <1>30 DEF RepairMove, TypeOK, Becomes, Token, Kind, Status, Content,
     row, world
<1>31. ASSUME NEW a \in Apps, NEW h \in Hours, NEW d \in Bytes, Import(a, h, d) PROVE TypeOK'
  BY <1>31 DEF Import, TypeOK, Token, Kind, Status, Content, disk, world, op, txn
<1>32. ASSUME NEW a \in Apps, NEW hs \in SUBSET Hours, PruneStart(a, hs) PROVE TypeOK'
  BY <1>32 DEF PruneStart, TypeOK, Becomes, Token, Kind, Status, Content, row, disk, world, op
<1>33. ASSUME NEW a \in Apps, NEW h \in Hours, NEW g \in Tags, PruneItem(a, h, g) PROVE TypeOK'
  BY <1>33 DEF PruneItem, TypeOK, Token, Kind, Status, Content, row, world, op
<1>34. ASSUME NEW h \in Hours, Republish(h) PROVE TypeOK'
  BY <1>34 DEF Republish, TypeOK, Token, Kind, Status, Content, row, disk, op, txn
<1>35. ASSUME NEW h \in Hours, Rot(h) PROVE TypeOK'
  BY ContentAssumption, <1>35 DEF Rot, TypeOK, Token, Kind, Status, Content, row, op, txn
<1>36. CASE UNCHANGED vars
  BY <1>36 DEF TypeOK, vars, row, disk, world, op, txn
<1> QED
  BY <1>1, <1>2, <1>3, <1>4, <1>5, <1>6, <1>7, <1>8, <1>9, <1>10, <1>11, <1>12, <1>13, <1>14,
     <1>15, <1>16, <1>17, <1>18, <1>19, <1>20, <1>21, <1>22, <1>23, <1>24, <1>25, <1>26, <1>27,
     <1>28, <1>29, <1>30, <1>31, <1>32, <1>33, <1>34, <1>35, <1>36
  DEF Next, Startup, FetchStep, RowStep, Prune, Repair, Environment

(* Rows, files, transactions and operations keep their types.               *)
THEOREM TypeCorrect == Spec => []TypeOK
<1>1. Init => TypeOK
  BY DEF Init, TypeOK, Status, Kind, Content
<1>2. TypeOK /\ [Next]_vars => TypeOK'
  BY TypeStep
<1> QED
  BY <1>1, <1>2, PTL DEF Spec

-----------------------------------------------------------------------------
(* Any number of processes.                                                 *)

(* The content digest of a source hour and the status "processed" last.     *)
THEOREM IdentityDurable == Spec => DurableIdentity
<1> DEFINE Keeps == \A h \in Hours :
                      /\ digest[h] # Absent => digest'[h] = digest[h]
                      /\ status[h] = "processed" => status'[h] = "processed"
<1>1. ASSUME TypeOK, [Next]_vars PROVE Keeps
<2>1. ASSUME NEW a \in Apps, Boot(a) PROVE Keeps
  BY <1>1, <2>1 DEF Boot, Becomes, Token, row, disk, world, op, TypeOK
<2>2. ASSUME NEW a \in Apps, BootDone(a) PROVE Keeps
  BY <1>1, <2>2 DEF BootDone, Becomes, Token, row, disk, world, op, txn, TypeOK
<2>3. ASSUME NEW a \in Apps, Reuse(a) PROVE Keeps
  BY <1>1, ContentAssumption, <2>3 DEF Reuse, Becomes, Token, row, disk, world, txn, TypeOK
<2>4. ASSUME NEW a \in Apps, DiscardInvalid(a) PROVE Keeps
  BY <1>1, ContentAssumption, <2>4 DEF DiscardInvalid, Token, row, world, op, txn, TypeOK
<2>5. ASSUME NEW a \in Apps, Download(a) PROVE Keeps
  BY <1>1, <2>5 DEF Download, Becomes, Token, row, disk, world, txn, TypeOK
<2>6. ASSUME NEW a \in Apps, Publish(a) PROVE Keeps
  BY <1>1, <2>6 DEF Publish, Becomes, Token, row, world, op, txn, TypeOK
<2>7. ASSUME NEW a \in Apps, PublishConflict(a) PROVE Keeps
  BY <1>1, ContentAssumption, <2>7 DEF PublishConflict, Becomes, Token, row, world, op, txn,
     TypeOK
<2>8. ASSUME NEW a \in Apps, FetchMissing(a) PROVE Keeps
  BY <1>1, <2>8 DEF FetchMissing, Becomes, Token, row, disk, world, op, txn, TypeOK
<2>9. ASSUME NEW a \in Apps, FetchFails(a) PROVE Keeps
  BY <1>1, <2>9 DEF FetchFails, Becomes, Token, row, disk, world, op, txn, TypeOK
<2>10. ASSUME NEW a \in Apps, Record(a) PROVE Keeps
  BY <1>1, ContentAssumption, <2>10 DEF Record, Becomes, Token, Accepts, disk, world, op, txn,
     TypeOK
<2>11. ASSUME NEW a \in Apps, RecordFailure(a) PROVE Keeps
  BY <1>1, <2>11 DEF RecordFailure, Becomes, Token, disk, world, op, txn, TypeOK
<2>12. ASSUME NEW a \in Apps, FailureLost(a) PROVE Keeps
  BY <1>1, <2>12 DEF FailureLost, Becomes, Token, row, disk, world, op, txn, TypeOK
<2>13. ASSUME NEW a \in Apps, PruneCommit(a) PROVE Keeps
  BY <1>1, <2>13 DEF PruneCommit, Becomes, Ends, Detach, Token, disk, world, op, TypeOK
<2>14. ASSUME NEW a \in Apps, PruneAbort(a) PROVE Keeps
  BY <1>1, <2>14 DEF PruneAbort, Becomes, Ends, Detach, Token, disk, world, op, TypeOK
<2>15. ASSUME NEW a \in Apps, PruneDone(a) PROVE Keeps
  BY <1>1, <2>15 DEF PruneDone, Becomes, Token, row, disk, world, op, txn, TypeOK
<2>16. ASSUME NEW a \in Apps, RepairCommit(a) PROVE Keeps
  BY <1>1, <2>16 DEF RepairCommit, Becomes, Ends, Withdraw, Token, disk, world, op, TypeOK
<2>17. ASSUME NEW a \in Apps, RepairAbort(a) PROVE Keeps
  BY <1>1, ContentAssumption, <2>17 DEF RepairAbort, Becomes, Ends, Withdraw, Token, disk,
     world, op, TypeOK
<2>18. ASSUME NEW a \in Apps, RepairRestore(a) PROVE Keeps
  BY <1>1, ContentAssumption, <2>18 DEF RepairRestore, Becomes, Token, row, world, op, txn,
     TypeOK
<2>19. ASSUME NEW a \in Apps, RepairRestoreFails(a) PROVE Keeps
  BY <1>1, <2>19 DEF RepairRestoreFails, Becomes, Token, row, disk, world, op, txn, TypeOK
<2>20. ASSUME NEW a \in Apps, Crash(a) PROVE Keeps
  BY <1>1, <2>20 DEF Crash, Becomes, Ends, Token, row, disk, world, op, TypeOK
<2>21. ASSUME NEW a \in Apps, NEW t \in moved[a], Reconcile(a, t) PROVE Keeps
  BY <1>1, <2>21 DEF Reconcile, Token, Reconcilable, row, world, op, TypeOK
<2>22. ASSUME NEW a \in Apps, NEW t \in moved[a], ReconcileFails(a, t) PROVE Keeps
  BY <1>1, <2>22 DEF ReconcileFails, Token, Reconcilable, row, disk, world, op, TypeOK
<2>23. ASSUME NEW a \in Apps, NEW t \in moved[a], Restore(a, t) PROVE Keeps
  BY <1>1, <2>23 DEF Restore, Token, row, world, op, TypeOK
<2>24. ASSUME NEW a \in Apps, NEW t \in moved[a], Unlink(a, t) PROVE Keeps
  BY <1>1, <2>24 DEF Unlink, Token, row, world, op, TypeOK
<2>25. ASSUME NEW a \in Apps, NEW t \in moved[a], LeaveHidden(a, t) PROVE Keeps
  BY <1>1, <2>25 DEF LeaveHidden, Token, row, disk, world, op, TypeOK
<2>26. ASSUME NEW a \in Apps, NEW h \in Hours, Admit(a, h) PROVE Keeps
  BY <1>1, <2>26 DEF Admit, Becomes, Token, disk, world, txn, TypeOK
<2>27. ASSUME NEW a \in Apps, NEW h \in Hours, RecoverStale(a, h) PROVE Keeps
  BY <1>1, <2>27 DEF RecoverStale, Token, disk, world, op, txn, TypeOK
<2>28. ASSUME NEW a \in Apps, NEW h \in Hours, Process(a, h) PROVE Keeps
  BY <1>1, <2>28 DEF Process, Token, disk, world, op, txn, TypeOK
<2>29. ASSUME NEW a \in Apps, NEW h \in Hours, PruneSkip(a, h) PROVE Keeps
  BY <1>1, <2>29 DEF PruneSkip, Token, row, disk, world, op, TypeOK
<2>30. ASSUME NEW a \in Apps, NEW h \in Hours, RepairMove(a, h) PROVE Keeps
  BY <1>1, ContentAssumption, <2>30 DEF RepairMove, Becomes, Token, row, world, TypeOK
<2>31. ASSUME NEW a \in Apps, NEW h \in Hours, NEW d \in Bytes, Import(a, h, d) PROVE Keeps
  BY <1>1, <2>31 DEF Import, Token, disk, world, op, txn, TypeOK
<2>32. ASSUME NEW a \in Apps, NEW hs \in SUBSET Hours, PruneStart(a, hs) PROVE Keeps
  BY <1>1, <2>32 DEF PruneStart, Becomes, Token, row, disk, world, op, TypeOK
<2>33. ASSUME NEW a \in Apps, NEW h \in Hours, NEW g \in Tags, PruneItem(a, h, g) PROVE Keeps
  BY <1>1, <2>33 DEF PruneItem, Token, row, world, op, TypeOK
<2>34. ASSUME NEW h \in Hours, Republish(h) PROVE Keeps
  BY <1>1, <2>34 DEF Republish, Token, row, disk, op, txn, TypeOK
<2>35. ASSUME NEW h \in Hours, Rot(h) PROVE Keeps
  BY <1>1, ContentAssumption, <2>35 DEF Rot, Token, row, op, txn, TypeOK
<2>36. CASE UNCHANGED vars
  BY <2>36 DEF Becomes, Ends, Detach, Withdraw, Token, Kind, Status, Content, Reconcilable,
     Accepts, row, disk, world, op, txn, TypeOK, vars
<2> QED
  BY <1>1, <2>1, <2>2, <2>3, <2>4, <2>5, <2>6, <2>7, <2>8, <2>9, <2>10, <2>11, <2>12, <2>13,
     <2>14, <2>15, <2>16, <2>17, <2>18, <2>19, <2>20, <2>21, <2>22, <2>23, <2>24, <2>25, <2>26,
     <2>27, <2>28, <2>29, <2>30, <2>31, <2>32, <2>33, <2>34, <2>35, <2>36
  DEF Next, Startup, FetchStep, RowStep, Prune, Repair, Environment
<1>2. TypeOK /\ [Next]_vars => [Keeps]_vars
  BY <1>1
<1> QED
  BY <1>2, TypeCorrect, PTL DEF Spec, DurableIdentity

(* A file whose name its row has never left: what a row not yet processed   *)
(* relies on, whichever process last touched the file.                      *)
Undisturbed ==
    /\ \A h \in Hours : file[h] = Garbled => h \in rotted
    /\ \A a \in Apps : kind[a] \in {"repairing", "unrepairing"} /\ bytes[a] = Garbled
                        => hour[a] \in rotted
    /\ \A a \in Apps : /\ kind[a] = "recording"
                       /\ hour[a] \notin rotted
                       /\ status[hour[a]] # "processed"
                       => file[hour[a]] = bytes[a]
    /\ \A h \in Hours : status[h] \in {"downloaded", "processed"} => digest[h] \in Bytes
    /\ \A a \in Apps : kind[a] \notin {"booting", "pruning", "unlinking", "restoring"}
                        => moved[a] = {}
    /\ \A a \in Apps : kind[a] = "pruning" =>
                        \A t \in moved[a] : status[t.hour] = "processed"
    /\ UnprocessedBytesKept

(* No action disturbs it.                                                   *)
LEMMA UndisturbedStep ==
  ASSUME TypeOK, Undisturbed, [Next]_vars
  PROVE  Undisturbed'
<1>1. ASSUME NEW a \in Apps, Boot(a) PROVE Undisturbed'
  BY <1>1 DEF Boot, Undisturbed, UnprocessedBytesKept, TypeOK, Becomes, Token, row, disk, world,
     op
<1>2. ASSUME NEW a \in Apps, BootDone(a) PROVE Undisturbed'
  BY <1>2 DEF BootDone, Undisturbed, UnprocessedBytesKept, TypeOK, Becomes, Token, row, disk,
     world, op, txn
<1>3. ASSUME NEW a \in Apps, Reuse(a) PROVE Undisturbed'
  BY ContentAssumption, <1>3 DEF Reuse, Undisturbed, UnprocessedBytesKept, TypeOK, Becomes,
     Token, row, disk, world, txn
<1>4. ASSUME NEW a \in Apps, DiscardInvalid(a) PROVE Undisturbed'
  BY ContentAssumption, <1>4 DEF DiscardInvalid, Undisturbed, UnprocessedBytesKept, TypeOK,
     Token, row, world, op, txn
<1>5. ASSUME NEW a \in Apps, Download(a) PROVE Undisturbed'
  BY <1>5 DEF Download, Undisturbed, UnprocessedBytesKept, TypeOK, Becomes, Token, row, disk,
     world, txn
<1>6. ASSUME NEW a \in Apps, Publish(a) PROVE Undisturbed'
  BY ContentAssumption, <1>6 DEF Publish, Undisturbed, UnprocessedBytesKept, TypeOK, Becomes, Token, row, world,
     op, txn
<1>7. ASSUME NEW a \in Apps, PublishConflict(a) PROVE Undisturbed'
  BY ContentAssumption, <1>7 DEF PublishConflict, Undisturbed, UnprocessedBytesKept, TypeOK,
     Becomes, Token, row, world, op, txn
<1>8. ASSUME NEW a \in Apps, FetchMissing(a) PROVE Undisturbed'
  BY <1>8 DEF FetchMissing, Undisturbed, UnprocessedBytesKept, TypeOK, Becomes, Token, row,
     disk, world, op, txn
<1>9. ASSUME NEW a \in Apps, FetchFails(a) PROVE Undisturbed'
  BY <1>9 DEF FetchFails, Undisturbed, UnprocessedBytesKept, TypeOK, Becomes, Token, row, disk,
     world, op, txn
<1>10. ASSUME NEW a \in Apps, Record(a) PROVE Undisturbed'
  BY ContentAssumption, <1>10 DEF Record, Undisturbed, UnprocessedBytesKept, Locked, TypeOK,
     Becomes, Token, Accepts, disk, world, op, txn
<1>11. ASSUME NEW a \in Apps, RecordFailure(a) PROVE Undisturbed'
  BY <1>11 DEF RecordFailure, Undisturbed, UnprocessedBytesKept, Locked, TypeOK, Becomes, Token,
     disk, world, op, txn
<1>12. ASSUME NEW a \in Apps, FailureLost(a) PROVE Undisturbed'
  BY <1>12 DEF FailureLost, Undisturbed, UnprocessedBytesKept, TypeOK, Becomes, Token, row,
     disk, world, op, txn
<1>13. ASSUME NEW a \in Apps, PruneCommit(a) PROVE Undisturbed'
  <2>1. \A h \in Hours : status[h] = "downloaded" => attached'[h] = attached[h]
    BY <1>13 DEF PruneCommit, Detach, Undisturbed, TypeOK
  <2>2. UnprocessedBytesKept'
    BY <1>13, <2>1 DEF PruneCommit, Undisturbed, UnprocessedBytesKept, disk, world, TypeOK
  <2> QED
    BY <1>13, <2>2 DEF PruneCommit, Undisturbed, Becomes, Ends, TypeOK, disk, world, op
<1>14. ASSUME NEW a \in Apps, PruneAbort(a) PROVE Undisturbed'
  <2>1. \A h \in Hours : status[h] = "downloaded" => attached'[h] = attached[h]
    BY <1>14 DEF PruneAbort, Detach, Undisturbed, TypeOK
  <2>2. UnprocessedBytesKept'
    BY <1>14, <2>1 DEF PruneAbort, Undisturbed, UnprocessedBytesKept, disk, world, TypeOK
  <2> QED
    BY <1>14, <2>2 DEF PruneAbort, Undisturbed, Becomes, Ends, TypeOK, disk, world, op
<1>15. ASSUME NEW a \in Apps, PruneDone(a) PROVE Undisturbed'
  BY <1>15 DEF PruneDone, Undisturbed, UnprocessedBytesKept, TypeOK, Becomes, Token, row, disk,
     world, op, txn
<1>16. ASSUME NEW a \in Apps, RepairCommit(a) PROVE Undisturbed'
  BY <1>16 DEF RepairCommit, Undisturbed, UnprocessedBytesKept, TypeOK, Becomes, Ends, Withdraw,
     Token, disk, world, op
<1>17. ASSUME NEW a \in Apps, RepairAbort(a) PROVE Undisturbed'
  BY ContentAssumption, <1>17 DEF RepairAbort, Undisturbed, UnprocessedBytesKept, TypeOK,
     Becomes, Ends, Withdraw, Token, disk, world, op
<1>18. ASSUME NEW a \in Apps, RepairRestore(a) PROVE Undisturbed'
  BY ContentAssumption, <1>18 DEF RepairRestore, Undisturbed, UnprocessedBytesKept, TypeOK,
     Becomes, Token, row, world, op, txn
<1>19. ASSUME NEW a \in Apps, RepairRestoreFails(a) PROVE Undisturbed'
  BY <1>19 DEF RepairRestoreFails, Undisturbed, UnprocessedBytesKept, TypeOK, Becomes, Token,
     row, disk, world, op, txn
<1>20. ASSUME NEW a \in Apps, Crash(a) PROVE Undisturbed'
  BY <1>20 DEF Crash, Undisturbed, UnprocessedBytesKept, TypeOK, Becomes, Ends, Token, row,
     disk, world, op
<1>21. ASSUME NEW a \in Apps, NEW t \in moved[a], Reconcile(a, t) PROVE Undisturbed'
  BY ContentAssumption, <1>21 DEF Reconcile, Undisturbed, UnprocessedBytesKept, TypeOK, Token, Reconcilable, row,
     world, op
<1>22. ASSUME NEW a \in Apps, NEW t \in moved[a], ReconcileFails(a, t) PROVE Undisturbed'
  BY <1>22 DEF ReconcileFails, Undisturbed, UnprocessedBytesKept, TypeOK, Token, Reconcilable,
     row, disk, world, op
<1>23. ASSUME NEW a \in Apps, NEW t \in moved[a], Restore(a, t) PROVE Undisturbed'
  BY ContentAssumption, <1>23 DEF Restore, Undisturbed, UnprocessedBytesKept, TypeOK, Token, row, world, op
<1>24. ASSUME NEW a \in Apps, NEW t \in moved[a], Unlink(a, t) PROVE Undisturbed'
  BY <1>24 DEF Unlink, Undisturbed, UnprocessedBytesKept, TypeOK, Token, row, world, op
<1>25. ASSUME NEW a \in Apps, NEW t \in moved[a], LeaveHidden(a, t) PROVE Undisturbed'
  BY <1>25 DEF LeaveHidden, Undisturbed, UnprocessedBytesKept, TypeOK, Token, row, disk, world,
     op
<1>26. ASSUME NEW a \in Apps, NEW h \in Hours, Admit(a, h) PROVE Undisturbed'
  BY <1>26 DEF Admit, Undisturbed, UnprocessedBytesKept, Locked, TypeOK, Becomes, Token, disk,
     world, txn
<1>27. ASSUME NEW a \in Apps, NEW h \in Hours, RecoverStale(a, h) PROVE Undisturbed'
  BY <1>27 DEF RecoverStale, Undisturbed, UnprocessedBytesKept, Locked, TypeOK, Token, disk,
     world, op, txn
<1>28. ASSUME NEW a \in Apps, NEW h \in Hours, Process(a, h) PROVE Undisturbed'
  BY <1>28 DEF Process, Undisturbed, UnprocessedBytesKept, Locked, TypeOK, Token, disk, world,
     op, txn
<1>29. ASSUME NEW a \in Apps, NEW h \in Hours, PruneSkip(a, h) PROVE Undisturbed'
  BY <1>29 DEF PruneSkip, Undisturbed, UnprocessedBytesKept, Locked, TypeOK, Token, row, disk,
     world, op
<1>30. ASSUME NEW a \in Apps, NEW h \in Hours, RepairMove(a, h) PROVE Undisturbed'
  BY ContentAssumption, <1>30 DEF RepairMove, Undisturbed, UnprocessedBytesKept, Locked, TypeOK,
     Becomes, Token, row, world
<1>31. ASSUME NEW a \in Apps, NEW h \in Hours, NEW d \in Bytes, Import(a, h, d) PROVE Undisturbed'
  BY <1>31 DEF Import, Undisturbed, UnprocessedBytesKept, Locked, TypeOK, Token, disk, world,
     op, txn
<1>32. ASSUME NEW a \in Apps, NEW hs \in SUBSET Hours, PruneStart(a, hs) PROVE Undisturbed'
  BY <1>32 DEF PruneStart, Undisturbed, UnprocessedBytesKept, TypeOK, Becomes, Token, row, disk,
     world, op
<1>33. ASSUME NEW a \in Apps, NEW h \in Hours, NEW g \in Tags, PruneItem(a, h, g) PROVE Undisturbed'
  BY ContentAssumption, <1>33 DEF PruneItem, Undisturbed, UnprocessedBytesKept, Locked, TypeOK, Token, row, world,
     op
<1>34. ASSUME NEW h \in Hours, Republish(h) PROVE Undisturbed'
  BY <1>34 DEF Republish, Undisturbed, UnprocessedBytesKept, TypeOK, Token, row, disk, op, txn
<1>35. ASSUME NEW h \in Hours, Rot(h) PROVE Undisturbed'
  BY ContentAssumption, <1>35 DEF Rot, Undisturbed, UnprocessedBytesKept, TypeOK, Token, row,
     op, txn
<1>36. CASE UNCHANGED vars
  BY <1>36 DEF vars, Undisturbed, UnprocessedBytesKept, TypeOK, row, disk, world, op, txn
<1> QED
  BY <1>1, <1>2, <1>3, <1>4, <1>5, <1>6, <1>7, <1>8, <1>9, <1>10, <1>11, <1>12, <1>13, <1>14,
     <1>15, <1>16, <1>17, <1>18, <1>19, <1>20, <1>21, <1>22, <1>23, <1>24, <1>25, <1>26, <1>27,
     <1>28, <1>29, <1>30, <1>31, <1>32, <1>33, <1>34, <1>35, <1>36
  DEF Next, Startup, FetchStep, RowStep, Prune, Repair, Environment

(* The archive of a downloaded row stays in place until it is processed.    *)
THEOREM UnprocessedBytesStay == Spec => []UnprocessedBytesKept
<1>1. Init => TypeOK /\ Undisturbed
  BY ContentAssumption DEF Init, TypeOK, Status, Kind, Content, Undisturbed, UnprocessedBytesKept
<1>2. TypeOK /\ Undisturbed /\ [Next]_vars => (TypeOK /\ Undisturbed)'
  BY TypeStep, UndisturbedStep
<1>3. Undisturbed => UnprocessedBytesKept
  BY DEF Undisturbed
<1> QED
  BY <1>1, <1>2, <1>3, PTL DEF Spec

-----------------------------------------------------------------------------
(* One process, which may die at any step.                                  *)

OneApp == \A a, b \in Apps : a = b

(* Every hidden file belongs to a processed row which owns its bytes; rows   *)
(* whose hidden files are being unlinked are detached; an archive about to   *)
(* be recorded is still there.                                               *)
Recoverable ==
    /\ \A t \in hidden : status[t.hour] = "processed" /\ digest[t.hour] = t.bytes
    /\ \A a \in Apps : kind[a] = "unlinking" =>
                        \A t \in moved[a] : ~attached[t.hour]
    /\ \A a \in Apps : kind[a] = "recording" /\ hour[a] \notin rotted
                        => file[hour[a]] = bytes[a]
    /\ ClaimedBytesSurvive

(* No action of the only process loses what can be recovered.               *)
LEMMA RecoverableStep ==
  ASSUME OneApp, TypeOK, Undisturbed, Recoverable, [Next]_vars
  PROVE  Recoverable'
<1>1. ASSUME NEW a \in Apps, Boot(a) PROVE Recoverable'
  BY <1>1 DEF Boot, Recoverable, Undisturbed, ClaimedBytesSurvive, Claimed, OneApp, TypeOK,
     Becomes, Token, row, disk, world, op
<1>2. ASSUME NEW a \in Apps, BootDone(a) PROVE Recoverable'
  BY <1>2 DEF BootDone, Recoverable, Undisturbed, ClaimedBytesSurvive, Claimed, OneApp, TypeOK,
     Becomes, Token, row, disk, world, op, txn
<1>3. ASSUME NEW a \in Apps, Reuse(a) PROVE Recoverable'
  BY ContentAssumption, <1>3 DEF Reuse, Recoverable, Undisturbed, ClaimedBytesSurvive, Claimed,
     OneApp, TypeOK, Becomes, Token, row, disk, world, txn
<1>4. ASSUME NEW a \in Apps, DiscardInvalid(a) PROVE Recoverable'
  BY ContentAssumption, <1>4 DEF DiscardInvalid, Recoverable, Undisturbed, ClaimedBytesSurvive,
     Claimed, OneApp, TypeOK, Token, row, world, op, txn
<1>5. ASSUME NEW a \in Apps, Download(a) PROVE Recoverable'
  BY <1>5 DEF Download, Recoverable, Undisturbed, ClaimedBytesSurvive, Claimed, OneApp, TypeOK,
     Becomes, Token, row, disk, world, txn
<1>6. ASSUME NEW a \in Apps, Publish(a) PROVE Recoverable'
  BY ContentAssumption, <1>6 DEF Publish, Recoverable, Undisturbed, ClaimedBytesSurvive, Claimed, OneApp, TypeOK,
     Becomes, Token, row, world, op, txn
<1>7. ASSUME NEW a \in Apps, PublishConflict(a) PROVE Recoverable'
  BY ContentAssumption, <1>7 DEF PublishConflict, Recoverable, Undisturbed, ClaimedBytesSurvive,
     Claimed, OneApp, TypeOK, Becomes, Token, row, world, op, txn
<1>8. ASSUME NEW a \in Apps, FetchMissing(a) PROVE Recoverable'
  BY <1>8 DEF FetchMissing, Recoverable, Undisturbed, ClaimedBytesSurvive, Claimed, OneApp,
     TypeOK, Becomes, Token, row, disk, world, op, txn
<1>9. ASSUME NEW a \in Apps, FetchFails(a) PROVE Recoverable'
  BY <1>9 DEF FetchFails, Recoverable, Undisturbed, ClaimedBytesSurvive, Claimed, OneApp,
     TypeOK, Becomes, Token, row, disk, world, op, txn
<1>10. ASSUME NEW a \in Apps, Record(a) PROVE Recoverable'
  BY ContentAssumption, <1>10 DEF Record, Recoverable, Undisturbed, ClaimedBytesSurvive,
     Claimed, OneApp, TypeOK, Becomes, Token, Accepts, disk, world, op, txn
<1>11. ASSUME NEW a \in Apps, RecordFailure(a) PROVE Recoverable'
  BY <1>11 DEF RecordFailure, Recoverable, Undisturbed, ClaimedBytesSurvive, Claimed, OneApp,
     TypeOK, Becomes, Token, disk, world, op, txn
<1>12. ASSUME NEW a \in Apps, FailureLost(a) PROVE Recoverable'
  BY <1>12 DEF FailureLost, Recoverable, Undisturbed, ClaimedBytesSurvive, Claimed, OneApp,
     TypeOK, Becomes, Token, row, disk, world, op, txn
<1>13. ASSUME NEW a \in Apps, PruneCommit(a) PROVE Recoverable'
  <2>1. \A h \in Hours : attached'[h] => attached[h]
    BY <1>13 DEF PruneCommit, Detach
  <2>2. ASSUME NEW t \in moved[a] PROVE ~attached'[t.hour]
    <3>1. t.hour \in Hours
      BY DEF TypeOK, Token
    <3>2. attached' = Detach(a)
      BY <1>13 DEF PruneCommit
    <3> QED
      BY <3>1, <3>2 DEF Detach
  <2>a. UNCHANGED <<status, digest, file, hidden, rotted>>
    BY <1>13 DEF PruneCommit, disk, world
  <2>b. \A h \in Hours : Claimed(h)' => Claimed(h)
    BY <2>1, <2>a DEF Claimed
  <2>3. ClaimedBytesSurvive'
    BY <2>a, <2>b DEF Recoverable, ClaimedBytesSurvive
  <2>4. \A b \in Apps : kind'[b] = "unlinking" =>
                        \A t \in moved'[b] : ~attached'[t.hour]
    BY <1>13, <2>2 DEF PruneCommit, OneApp
  <2>5. \A b \in Apps : kind'[b] # "recording"
    BY <1>13 DEF PruneCommit, OneApp, Becomes, TypeOK
  <2>6. \A t \in hidden' : status'[t.hour] = "processed" /\ digest'[t.hour] = t.bytes
    BY <1>13 DEF PruneCommit, Recoverable, disk
  <2> QED
    BY <2>3, <2>4, <2>5, <2>6 DEF Recoverable
<1>14. ASSUME NEW a \in Apps, PruneAbort(a) PROVE Recoverable'
  BY <1>14 DEF PruneAbort, Recoverable, Undisturbed, ClaimedBytesSurvive, Claimed, OneApp,
     TypeOK, Becomes, Ends, Detach, Token, disk, world, op
<1>15. ASSUME NEW a \in Apps, PruneDone(a) PROVE Recoverable'
  BY <1>15 DEF PruneDone, Recoverable, Undisturbed, ClaimedBytesSurvive, Claimed, OneApp,
     TypeOK, Becomes, Token, row, disk, world, op, txn
<1>16. ASSUME NEW a \in Apps, RepairCommit(a) PROVE Recoverable'
  BY <1>16 DEF RepairCommit, Recoverable, Undisturbed, ClaimedBytesSurvive, Claimed, OneApp,
     TypeOK, Becomes, Ends, Withdraw, Token, disk, world, op
<1>17. ASSUME NEW a \in Apps, RepairAbort(a) PROVE Recoverable'
  BY ContentAssumption, <1>17 DEF RepairAbort, Recoverable, Undisturbed, ClaimedBytesSurvive,
     Claimed, OneApp, TypeOK, Becomes, Ends, Withdraw, Token, disk, world, op
<1>18. ASSUME NEW a \in Apps, RepairRestore(a) PROVE Recoverable'
  BY ContentAssumption, <1>18 DEF RepairRestore, Recoverable, Undisturbed, ClaimedBytesSurvive,
     Claimed, OneApp, TypeOK, Becomes, Token, row, world, op, txn
<1>19. ASSUME NEW a \in Apps, RepairRestoreFails(a) PROVE Recoverable'
  BY <1>19 DEF RepairRestoreFails, Recoverable, Undisturbed, ClaimedBytesSurvive, Claimed,
     OneApp, TypeOK, Becomes, Token, row, disk, world, op, txn
<1>20. ASSUME NEW a \in Apps, Crash(a) PROVE Recoverable'
  BY <1>20 DEF Crash, Recoverable, Undisturbed, ClaimedBytesSurvive, Claimed, OneApp, TypeOK,
     Becomes, Ends, Token, row, disk, world, op
<1>21. ASSUME NEW a \in Apps, NEW t \in moved[a], Reconcile(a, t) PROVE Recoverable'
  BY <1>21 DEF Reconcile, Recoverable, Undisturbed, ClaimedBytesSurvive, Claimed, OneApp,
     TypeOK, Token, Reconcilable, row, world, op
<1>22. ASSUME NEW a \in Apps, NEW t \in moved[a], ReconcileFails(a, t) PROVE Recoverable'
  BY <1>22 DEF ReconcileFails, Recoverable, Undisturbed, ClaimedBytesSurvive, Claimed, OneApp,
     TypeOK, Token, Reconcilable, row, disk, world, op
<1>23. ASSUME NEW a \in Apps, NEW t \in moved[a], Restore(a, t) PROVE Recoverable'
  BY <1>23 DEF Restore, Recoverable, Undisturbed, ClaimedBytesSurvive, Claimed, OneApp, TypeOK,
     Token, row, world, op
<1>24. ASSUME NEW a \in Apps, NEW t \in moved[a], Unlink(a, t) PROVE Recoverable'
  BY <1>24 DEF Unlink, Recoverable, Undisturbed, ClaimedBytesSurvive, Claimed, OneApp, TypeOK,
     Token, row, world, op
<1>25. ASSUME NEW a \in Apps, NEW t \in moved[a], LeaveHidden(a, t) PROVE Recoverable'
  BY <1>25 DEF LeaveHidden, Recoverable, Undisturbed, ClaimedBytesSurvive, Claimed, OneApp,
     TypeOK, Token, row, disk, world, op
<1>26. ASSUME NEW a \in Apps, NEW h \in Hours, Admit(a, h) PROVE Recoverable'
  BY <1>26 DEF Admit, Recoverable, Undisturbed, ClaimedBytesSurvive, Claimed, OneApp, TypeOK,
     Becomes, Token, disk, world, txn
<1>27. ASSUME NEW a \in Apps, NEW h \in Hours, RecoverStale(a, h) PROVE Recoverable'
  BY <1>27 DEF RecoverStale, Recoverable, Undisturbed, ClaimedBytesSurvive, Claimed, OneApp,
     TypeOK, Token, disk, world, op, txn
<1>28. ASSUME NEW a \in Apps, NEW h \in Hours, Process(a, h) PROVE Recoverable'
  BY <1>28 DEF Process, Recoverable, Undisturbed, ClaimedBytesSurvive, Claimed, OneApp, TypeOK,
     Token, disk, world, op, txn
<1>29. ASSUME NEW a \in Apps, NEW h \in Hours, PruneSkip(a, h) PROVE Recoverable'
  BY <1>29 DEF PruneSkip, Recoverable, Undisturbed, ClaimedBytesSurvive, Claimed, OneApp,
     TypeOK, Token, row, disk, world, op
<1>30. ASSUME NEW a \in Apps, NEW h \in Hours, RepairMove(a, h) PROVE Recoverable'
  BY ContentAssumption, <1>30 DEF RepairMove, Recoverable, Undisturbed, ClaimedBytesSurvive,
     Claimed, OneApp, TypeOK, Becomes, Token, row, world
<1>31. ASSUME NEW a \in Apps, NEW h \in Hours, NEW d \in Bytes, Import(a, h, d) PROVE Recoverable'
  BY ContentAssumption, <1>31 DEF Import, Recoverable, Undisturbed, ClaimedBytesSurvive, Claimed, OneApp, TypeOK,
     Token, disk, world, op, txn
<1>32. ASSUME NEW a \in Apps, NEW hs \in SUBSET Hours, PruneStart(a, hs) PROVE Recoverable'
  BY <1>32 DEF PruneStart, Recoverable, Undisturbed, ClaimedBytesSurvive, Claimed, OneApp,
     TypeOK, Becomes, Token, row, disk, world, op
<1>33. ASSUME NEW a \in Apps, NEW h \in Hours, NEW g \in Tags, PruneItem(a, h, g) PROVE Recoverable'
  <2> DEFINE t == [hour |-> h, bytes |-> file[h], tag |-> g]
  <2>1. /\ hidden' = hidden \union {t}
        /\ status[h] = "processed"
        /\ t.bytes = digest[h]
        /\ t.hour = h
    BY <1>33 DEF PruneItem
  <2>2. ClaimedBytesSurvive'
    <3> SUFFICES ASSUME NEW k \in Hours, Claimed(k)', k \notin rotted'
                 PROVE  \/ file'[k] = digest'[k]
                        \/ /\ status'[k] = "processed"
                           /\ \E u \in hidden' : u.hour = k /\ u.bytes = digest'[k]
      BY DEF ClaimedBytesSurvive
    <3>1. CASE k = h
      BY <3>1, <2>1, <1>33 DEF PruneItem, row
    <3>2. CASE k # h
      BY <3>2, <2>1, <1>33
      DEF PruneItem, Recoverable, ClaimedBytesSurvive, Claimed, row, world, TypeOK
    <3> QED
      BY <3>1, <3>2
  <2>3. \A u \in hidden' : status'[u.hour] = "processed" /\ digest'[u.hour] = u.bytes
    BY <2>1, <1>33 DEF PruneItem, Recoverable, row
  <2>4. \A b \in Apps : kind'[b] = "pruning"
    BY <1>33 DEF PruneItem, OneApp
  <2> QED
    BY <2>2, <2>3, <2>4 DEF Recoverable
<1>34. ASSUME NEW h \in Hours, Republish(h) PROVE Recoverable'
  BY <1>34 DEF Republish, Recoverable, Undisturbed, ClaimedBytesSurvive, Claimed, OneApp,
     TypeOK, Token, row, disk, op, txn
<1>35. ASSUME NEW h \in Hours, Rot(h) PROVE Recoverable'
  BY ContentAssumption, <1>35 DEF Rot, Recoverable, Undisturbed, ClaimedBytesSurvive, Claimed,
     OneApp, TypeOK, Token, row, op, txn
<1>36. CASE UNCHANGED vars
  BY <1>36 DEF vars, Recoverable, Undisturbed, ClaimedBytesSurvive, Claimed, TypeOK, row, disk,
     world, op, txn
<1> QED
  BY <1>1, <1>2, <1>3, <1>4, <1>5, <1>6, <1>7, <1>8, <1>9, <1>10, <1>11, <1>12, <1>13, <1>14,
     <1>15, <1>16, <1>17, <1>18, <1>19, <1>20, <1>21, <1>22, <1>23, <1>24, <1>25, <1>26, <1>27,
     <1>28, <1>29, <1>30, <1>31, <1>32, <1>33, <1>34, <1>35, <1>36
  DEF Next, Startup, FetchStep, RowStep, Prune, Repair, Environment

(* What a row claims is on disk or can be restored, after any death.        *)
THEOREM ClaimedBytesAreNeverLost ==
  ASSUME OneApp
  PROVE  Spec => []ClaimedBytesSurvive
<1> DEFINE IInv == TypeOK /\ Undisturbed /\ Recoverable
<1>1. Init => IInv
  BY ContentAssumption DEF Init, TypeOK, Status, Kind, Content, Undisturbed,
     UnprocessedBytesKept, Recoverable, ClaimedBytesSurvive, Claimed
<1>2. IInv /\ [Next]_vars => IInv'
  BY OneApp, TypeStep, UndisturbedStep, RecoverableStep
<1>3. IInv => ClaimedBytesSurvive
  BY DEF Recoverable
<1> QED
  BY <1>1, <1>2, <1>3, PTL DEF Spec

=============================================================================
