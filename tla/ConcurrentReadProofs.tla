------------------------ MODULE ConcurrentReadProofs ------------------------
(***************************************************************************)
(* What a poll of ConcurrentRing knows, for every capacity, set of record   *)
(* shapes and number of appends: the invariant of the walk, and how each    *)
(* group of loads preserves it.                                             *)
(***************************************************************************)
EXTENDS ConcurrentRing, ConcurrentLoadProofs

-----------------------------------------------------------------------------
(* The invariant of the reader.                                             *)

Walking == pc \in {"walk", "header", "body", "recover"}

\* h and o are what the reader knows.
ReaderAt(h, o) ==
    /\ Known(written, h, o, last_read)
    /\ CursorOK(written, h, o, cursor_abs, delivered)
    /\ Walking =>
        /\ WalkOK(written, h, o, cursor_abs, abs, snap.head, seen, delivered, batch)
        /\ StepOK(written, h, pc, abs, total_len, snap.head)

\* The reader's part of the inductive invariant.
ReaderInv ==
    /\ Mem!View \in ViewType
    /\ pc \in {"idle", "image", "walk", "header", "body", "recover"}
    /\ total_len \in Nat
    /\ failure # "none" => Lapped(written, cursor_abs)
    /\ ~Walking => batch = <<>>
    /\ \E h, o \in Writes(written) : ReaderAt(h, o)

-----------------------------------------------------------------------------
(* The ends of the reader's actions.                                        *)

\* poll returns.
LEMMA ReturnStep ==
    ASSUME NEW c, NEW recs, NEW err, Return(c, recs, err), UNCHANGED written,
           Mem!View' \in ViewType, NEW h, NEW o, Known(written, h, o, last_read'),
           CursorOK(written, h, o, c, delivered \o recs),
           err # "none" => Lapped(written, c)
    PROVE  ReaderInv'
<1>1. /\ pc' = "idle" /\ cursor_abs' = c /\ delivered' = delivered \o recs
      /\ failure' = err /\ total_len' = 0 /\ batch' = <<>> /\ written' = written
  BY Zenon DEF Return
<1>2. pc' \in {"idle", "image", "walk", "header", "body", "recover"} /\ ~Walking'
  BY <1>1, Zenon DEF Walking
<1>3. h \in Writes(written) /\ o \in Writes(written)
  BY Zenon DEF Known
<1> QED
  BY <1>1, <1>2, <1>3 DEF ReaderInv, ReaderAt

\* poll goes on.
LEMMA ContinueStep ==
    ASSUME NEW step, NEW a, NEW len, NEW recs, Continue(step, a, len, recs),
           UNCHANGED written,
           step \in {"walk", "header", "body", "recover"}, len \in Nat,
           Mem!View' \in ViewType, NEW h, NEW o, Known(written, h, o, last_read'),
           CursorOK(written, h, o, cursor_abs, delivered),
           WalkOK(written, h, o, cursor_abs, a, snap.head, seen', delivered, recs),
           StepOK(written, h, step, a, len, snap.head),
           failure # "none" => Lapped(written, cursor_abs)
    PROVE  ReaderInv'
<1>1. /\ pc' = step /\ abs' = a /\ total_len' = len /\ batch' = recs
      /\ snap' = snap /\ cursor_abs' = cursor_abs /\ delivered' = delivered
      /\ failure' = failure /\ written' = written
  BY Zenon DEF Continue
<1>2. pc' \in {"idle", "image", "walk", "header", "body", "recover"} /\ Walking'
  BY <1>1, Zenon DEF Walking
<1>3. h \in Writes(written) /\ o \in Writes(written)
  BY Zenon DEF Known
<1> QED
  BY <1>1, <1>2, <1>3, Zenon DEF ReaderInv, ReaderAt

\* poll has its snapshot: the head of write h, and the oldest of write o.
LEMMA StartStep ==
    ASSUME NEW h, NEW o, StartWalk(End(written, h), Oldest(written, o)), UNCHANGED written,
           ReaderInv, ~Walking, WriterOK(written),
           Mem!View' \in ViewType, Known(written, h, o, last_read'),
           CursorOK(written, h, o, cursor_abs, delivered), HeadAt(written, h) <= seen'
    PROVE  ReaderInv'
<1>1. /\ pc' = "walk" /\ total_len' = total_len /\ batch' = <<>>
      /\ cursor_abs' = cursor_abs /\ delivered' = delivered
      /\ failure' = failure /\ written' = written
      /\ abs' = IF cursor_abs < Oldest(written, o) THEN Oldest(written, o) ELSE cursor_abs
      /\ snap'.head = End(written, h)
  BY Zenon DEF StartWalk, ReaderInv
<1>2. pc' \in {"idle", "image", "walk", "header", "body", "recover"} /\ Walking'
  BY <1>1, Zenon DEF Walking
<1>3. h \in Writes(written) /\ o \in Writes(written) /\ LogOK(written, stores)
  BY Zenon DEF Known, WriterOK
<1>4. WalkOK(written, h, o, cursor_abs, abs', End(written, h), seen', delivered, <<>>)
  BY <1>1, <1>3, StartOK, Zenon
<1>5. StepOK(written, h, "walk", abs', total_len, End(written, h))
  BY Zenon DEF StepOK
<1>6. total_len \in Nat /\ (failure # "none" => Lapped(written, cursor_abs))
  BY Zenon DEF ReaderInv
<1>7. ReaderAt(h, o)'
  BY <1>1, <1>4, <1>5 DEF ReaderAt
<1> QED
  BY <1>1, <1>2, <1>3, <1>6, <1>7 DEF ReaderInv

-----------------------------------------------------------------------------
(* One load.                                                                *)

\* A reader knows at first what it last read.
LEMMA OwnView ==
    ASSUME ReaderInv
    PROVE  /\ Mem!View \in ViewType /\ Mem!View.seen = seen /\ Mem!View.last_read = last_read
           /\ seen \in Nat /\ last_read \in [Location -> Nat]
<1>1. Mem!View \in ViewType
  BY Zenon DEF ReaderInv
<1>2. Mem!View = [seen |-> seen, acquired |-> acquired, last_read |-> last_read]
  BY Zenon DEF Mem!View
<1> QED
  BY <1>1, <1>2 DEF ViewType

-----------------------------------------------------------------------------
(* The reader's actions: the snapshot.                                      *)

\* OwnedConcurrentStore's two acquire loads.
LEMMA OwnedSnapshotStep ==
    ASSUME WriterOK(written), ReaderInv, OwnedSnapshot
    PROVE  ReaderInv'
<1>1. ~Walking /\ UNCHANGED written
  BY Zenon DEF OwnedSnapshot, Walking, producerVars
<1>2. PICK h, o : ReaderAt(h, o)
  BY Zenon DEF ReaderInv
<1>3. PICK m \in Mem!Visible(Mem!View, HeadAbs) :
        \E k \in Mem!Visible(Mem!AfterAcquireLoad(Mem!View, HeadAbs, m), OldestAbs) :
            /\ Mem!Adopt(Mem!AfterAcquireLoad(Mem!AfterAcquireLoad(Mem!View, HeadAbs, m),
                                              OldestAbs, k))
            /\ StartWalk(m.val, k.val)
  BY Zenon DEF OwnedSnapshot
<1> DEFINE view == Mem!View
           view1 == Mem!AfterAcquireLoad(view, HeadAbs, m)
<1>4. PICK k \in Mem!Visible(view1, OldestAbs) :
            Mem!Adopt(Mem!AfterAcquireLoad(view1, OldestAbs, k)) /\ StartWalk(m.val, k.val)
  BY <1>3, Zenon
<1> DEFINE view2 == Mem!AfterAcquireLoad(view1, OldestAbs, k)
<1>5. /\ view \in ViewType /\ Known(written, h, o, view.last_read)
      /\ CursorOK(written, h, o, cursor_abs, delivered)
  BY <1>2, OwnView, Zenon DEF ReaderAt
<1> HIDE DEF view
<1>6. PICK w : /\ Later(written, h, w) /\ m.val = End(written, w)
               /\ Learned(view, view1, w, o)
               /\ HeadAt(written, w) <= view1.seen
  <2>1. m \in Mem!Visible(view, HeadAbs)
    BY Zenon DEF view
  <2> QED
    BY <1>5, <2>1, HeadLoad, Zenon
<1> HIDE DEF view1
<1>7. view1 \in ViewType /\ Known(written, w, o, view1.last_read)
  BY <1>6, Zenon DEF Learned
<1>8. PICK x : /\ Later(written, o, x) /\ k.val = Oldest(written, x)
               /\ Learned(view1, view2, w, x)
  BY <1>7, OldestLoad, Zenon
<1> HIDE DEF view2
<1>9. Mem!Adopt(view2) /\ StartWalk(End(written, w), Oldest(written, x))
  BY <1>4, <1>6, <1>8, Zenon DEF view2
<1>10. /\ Mem!View' \in ViewType /\ seen' \in Nat /\ seen' >= view1.seen
       /\ Known(written, w, x, last_read')
  BY <1>8, <1>9, AdoptLearned
<1>11. HeadAt(written, w) <= seen'
  <2>1. w \in Writes(written) /\ HeadAt(written, w) \in Nat /\ view1.seen \in Nat
    BY <1>6, <1>7, LogTypes, SMTT(30) DEF Later, WriterOK, ViewType
  <2> QED
    BY <1>6, <1>10, <2>1
<1>12. CursorOK(written, w, x, cursor_abs, delivered)
  <2>1. LogOK(written, stores)
    BY Zenon DEF WriterOK
  <2> QED
    BY <1>5, <1>6, <1>8, <2>1, CursorLater
<1> QED
  BY <1>1, <1>9, <1>10, <1>11, <1>12, StartStep, SMTT(30)

\* An error, or an empty batch: nothing but the view has changed.
LEMMA ErrorStep ==
    ASSUME NEW err, PollError(err), UNCHANGED written, Mem!View' \in ViewType,
           NEW h, NEW o, Known(written, h, o, last_read'),
           CursorOK(written, h, o, cursor_abs, delivered),
           err # "none" => Lapped(written, cursor_abs)
    PROVE  ReaderInv'
<1>1. delivered \in Seq(Accepted)
  BY Zenon DEF CursorOK, InOrder
<1>2. delivered \o <<>> = delivered
  BY <1>1, ConcatNone
<1>3. Return(cursor_abs, <<>>, err)
  BY Zenon DEF PollError
<1> QED
  BY <1>2, <1>3, ReturnStep, Zenon

\* A lap: the cursor moves to the oldest of write o.
LEMMA OverwrittenStep ==
    ASSUME WriterOK(written), NEW h, NEW o, Overwritten(Oldest(written, o)), UNCHANGED written,
           Mem!View' \in ViewType, Known(written, h, o, last_read'),
           CursorOK(written, h, o, cursor_abs, delivered), Oldest(written, o) > cursor_abs
    PROVE  ReaderInv'
<1>1. delivered \in Seq(Accepted) /\ h \in Writes(written) /\ o \in Writes(written)
      /\ LogOK(written, stores)
  BY Zenon DEF CursorOK, InOrder, Known, WriterOK
<1>2. delivered \o <<>> = delivered
  BY <1>1, ConcatNone
<1>3. Return(Oldest(written, o), <<>>, "none")
  BY Zenon DEF Overwritten
<1>4. CursorOK(written, h, o, Oldest(written, o), delivered)
  BY <1>1, LapOK, Zenon
<1> QED
  BY <1>2, <1>3, <1>4, ReturnStep, Zenon

\* SharedConcurrentStore's first load of the lock.
LEMMA SharedLockStep ==
    ASSUME WriterOK(written), ReaderInv, SharedLock
    PROVE  ReaderInv'
<1>1. ~Walking /\ UNCHANGED written
  BY Zenon DEF SharedLock, Walking, producerVars
<1>2. PICK h, o : h \in Writes(written) /\ o \in Writes(written) /\ ReaderAt(h, o)
  BY Zenon DEF ReaderInv
<1> DEFINE view == Mem!View
<1>3. PICK m \in Mem!Visible(view, SeqLock) :
        /\ Mem!Adopt(Mem!AfterAcquireLoad(view, SeqLock, m))
        /\ \/ /\ pc' = "image"
              /\ UNCHANGED <<abs, total_len, batch, cursor_abs, delivered, failure>>
           \/ PollError("none")
  BY Zenon DEF SharedLock
<1>4. /\ view \in ViewType /\ Known(written, h, o, view.last_read)
      /\ CursorOK(written, h, o, cursor_abs, delivered)
  BY <1>2, OwnView, Zenon DEF ReaderAt
<1>5. m.at \in Nat /\ m.rel \in Nat
  <2>1. m \in messages[SeqLock] /\ LockMessages(messages, stores)
    BY Zenon DEF Mem!Visible, WriterOK
  <2> QED
    BY <2>1, Zenon DEF LockMessages
<1> HIDE DEF view
<1>6. Learned(view, Mem!AfterAcquireLoad(view, SeqLock, m), h, o)
  <2>1. SeqLock \in Location /\ SeqLock # HeadAbs /\ SeqLock # OldestAbs
    BY Locations, Zenon
  <2> QED
    BY <1>4, <1>5, <2>1, OtherLoad
<1>7. Mem!View' \in ViewType /\ Known(written, h, o, last_read')
  BY <1>3, <1>6, AdoptLearned
<1>8. CASE PollError("none")
  BY <1>1, <1>4, <1>7, <1>8, ErrorStep, SMTT(30)
<1>9. CASE pc' = "image" /\ UNCHANGED <<abs, total_len, batch, cursor_abs, delivered, failure>>
  <2>1. ~Walking'
    BY <1>9, Zenon DEF Walking
  <2>2. ReaderAt(h, o)'
    BY <1>1, <1>4, <1>7, <1>9, <2>1, SMTT(30) DEF ReaderAt
  <2>3. batch = <<>> /\ total_len \in Nat /\ (failure # "none" => Lapped(written, cursor_abs))
    BY <1>1, Zenon DEF ReaderInv
  <2> QED
    BY <1>1, <1>2, <1>7, <1>9, <2>1, <2>2, <2>3, SMTT(30) DEF ReaderInv
<1> QED
  BY <1>3, <1>8, <1>9, Zenon

\* SharedConcurrentStore's relaxed loads, on x86, and its second look at the lock.
LEMMA SharedImageStep ==
    ASSUME WriterOK(written), ReaderInv, SharedImage, Ordering = "x86"
    PROVE  ReaderInv'
<1>1. ~Walking /\ UNCHANGED written
  BY Zenon DEF SharedImage, Walking, producerVars
<1>2. PICK h, o : ReaderAt(h, o)
  BY Zenon DEF ReaderInv
<1> DEFINE view == Mem!View
           View1(m) == Mem!AfterRelaxedLoad(view, HeadAbs, m)
           View2(m, k) == Mem!AfterRelaxedLoad(View1(m), OldestAbs, k)
           View3(m, k, l) == Mem!AfterAcquireLoad(View2(m, k), SeqLock, l)
<1>3. PICK m \in Mem!Visible(view, HeadAbs) :
        \E k \in Mem!Visible(View1(m), OldestAbs) :
        \E l \in Mem!Visible(View2(m, k), SeqLock) :
            /\ Mem!Adopt(View3(m, k, l))
            /\ StartWalk(m.val, k.val) \/ PollError("none")
  BY Zenon DEF SharedImage
<1>4. PICK k \in Mem!Visible(View1(m), OldestAbs) :
        \E l \in Mem!Visible(View2(m, k), SeqLock) :
            /\ Mem!Adopt(View3(m, k, l))
            /\ StartWalk(m.val, k.val) \/ PollError("none")
  BY <1>3, Zenon
<1>5. PICK l \in Mem!Visible(View2(m, k), SeqLock) :
            /\ Mem!Adopt(View3(m, k, l))
            /\ StartWalk(m.val, k.val) \/ PollError("none")
  BY <1>4, Zenon
<1> DEFINE view1 == View1(m)
           view2 == View2(m, k)
           view3 == View3(m, k, l)
<1>6. l.at \in Nat /\ l.rel \in Nat
  <2>1. l \in messages[SeqLock] /\ LockMessages(messages, stores)
    BY Zenon DEF Mem!Visible, WriterOK
  <2> QED
    BY <2>1, Zenon DEF LockMessages
<1>7. /\ view \in ViewType /\ Known(written, h, o, view.last_read)
      /\ CursorOK(written, h, o, cursor_abs, delivered)
  BY <1>2, OwnView, Zenon DEF ReaderAt
<1> HIDE DEF view
<1>8. PICK w : /\ Later(written, h, w) /\ m.val = End(written, w)
               /\ Learned(view, view1, w, o)
               /\ HeadAt(written, w) <= view1.seen
  BY <1>7, HeadLoad, Zenon
<1>9. view1 \in ViewType /\ Known(written, w, o, view1.last_read)
  BY <1>8, Zenon DEF Learned
<1>10. view2 = Mem!AfterRelaxedLoad(view1, OldestAbs, k) /\ k \in Mem!Visible(view1, OldestAbs)
  BY Zenon
<1>11. view3 = Mem!AfterAcquireLoad(view2, SeqLock, l)
  BY Zenon
<1>12. Mem!Adopt(view3)
  BY <1>5, Zenon
<1> HIDE DEF View1, View2, View3, view1, view2, view3
<1>13. PICK x : /\ Later(written, o, x) /\ k.val = Oldest(written, x)
                /\ Learned(view1, view2, w, x)
  BY <1>9, <1>10, OldestLoad, Zenon
<1>14. view2 \in ViewType /\ Known(written, w, x, view2.last_read) /\ view2.seen >= view1.seen
  BY <1>13 DEF Learned
<1>15. Learned(view2, view3, w, x)
  <2>1. SeqLock \in Location /\ SeqLock # HeadAbs /\ SeqLock # OldestAbs
    BY Locations, Zenon
  <2> QED
    BY <1>6, <1>11, <1>14, <2>1, OtherLoad
<1>16. /\ Mem!View' \in ViewType /\ seen' \in Nat /\ seen' >= view2.seen
       /\ Known(written, w, x, last_read')
  BY <1>12, <1>15, AdoptLearned
<1>17. HeadAt(written, w) <= seen'
  <2>1. /\ w \in Writes(written) /\ HeadAt(written, w) \in Nat
        /\ view1.seen \in Nat /\ view2.seen \in Nat
    BY <1>8, <1>9, <1>14, LogTypes DEF Later, WriterOK, ViewType
  <2> QED
    BY <1>8, <1>14, <1>16, <2>1, SMTT(30)
<1>18. CursorOK(written, w, x, cursor_abs, delivered)
  <2>1. LogOK(written, stores)
    BY DEF WriterOK
  <2> QED
    BY <1>7, <1>8, <1>13, <2>1, CursorLater, SMTT(30)
<1>19. CASE PollError("none")
  BY <1>1, <1>16, <1>18, <1>19, ErrorStep, SMTT(30)
<1>20. CASE StartWalk(m.val, k.val)
  <2>1. StartWalk(End(written, w), Oldest(written, x))
    BY <1>8, <1>13, <1>20
  <2> QED
    BY <1>1, <1>16, <1>17, <1>18, <2>1, StartStep, SMTT(30)
<1> QED
  BY <1>5, <1>19, <1>20

-----------------------------------------------------------------------------
(* The reader's actions: the end of the walk.                               *)

\* Where a walk is.
LEMMA WalkFacts ==
    ASSUME WriterOK(written), ReaderInv, Walking
    PROVE  \E h, o :
              /\ h \in Writes(written) /\ o \in Writes(written)
              /\ Known(written, h, o, Mem!View.last_read)
              /\ CursorOK(written, h, o, cursor_abs, delivered)
              /\ WalkOK(written, h, o, cursor_abs, abs, snap.head, seen, delivered, batch)
              /\ StepOK(written, h, pc, abs, total_len, snap.head)
  BY OwnView, Zenon DEF ReaderInv, ReaderAt

\* The last look at OldestAbs.
LEMMA FinishStep ==
    ASSUME WriterOK(written), ReaderInv, Finish
    PROVE  ReaderInv'
<1>1. Walking /\ UNCHANGED written
  BY Zenon DEF Finish, Walking, producerVars
<1>2. PICK h, o :
              /\ h \in Writes(written) /\ o \in Writes(written)
              /\ Known(written, h, o, Mem!View.last_read)
              /\ CursorOK(written, h, o, cursor_abs, delivered)
              /\ WalkOK(written, h, o, cursor_abs, abs, snap.head, seen, delivered, batch)
  BY <1>1, WalkFacts, Zenon
<1> DEFINE view == Mem!View
<1>3. PICK m \in Mem!Visible(view, OldestAbs) :
        /\ Mem!Adopt(Mem!AfterAcquireLoad(view, OldestAbs, m))
        /\ \/ m.val > cursor_abs /\ Overwritten(m.val)
           \/ Return(snap.head, batch, "none")
  BY Zenon DEF Finish
<1>4. view \in ViewType /\ LogOK(written, stores)
  BY OwnView, Zenon DEF WriterOK
<1> HIDE DEF view
<1>5. PICK x : /\ Later(written, o, x) /\ m.val = Oldest(written, x)
               /\ Learned(view, Mem!AfterAcquireLoad(view, OldestAbs, m), h, x)
  BY <1>2, <1>4, OldestLoad, Zenon DEF view
<1>6. Mem!View' \in ViewType /\ Known(written, h, x, last_read')
  BY <1>3, <1>5, AdoptLearned
<1>7. CASE m.val > cursor_abs /\ Overwritten(m.val)
  <2>1. CursorOK(written, h, x, cursor_abs, delivered)
    <3>1. h \in Nat
      BY <1>2, <1>4, LogTypes DEF Writes
    <3>2. Later(written, h, h)
      BY <1>2, <3>1 DEF Later
    <3> QED
      BY <1>2, <1>4, <1>5, <3>2, CursorLater, SMTT(30)
  <2> QED
    BY <1>1, <1>5, <1>6, <1>7, <2>1, OverwrittenStep
<1>8. CASE Return(snap.head, batch, "none")
  <2>1. CursorOK(written, h, x, snap.head, delivered \o batch)
    BY <1>2, <1>4, <1>5, FinishOK
  <2> QED
    BY <1>1, <1>6, <1>8, <2>1, ReturnStep
<1> QED
  BY <1>3, <1>7, <1>8, Zenon

\* After a wire fault.
LEMMA RecoverStep ==
    ASSUME WriterOK(written), ReaderInv, Recover
    PROVE  ReaderInv'
<1>1. Walking /\ UNCHANGED written /\ pc = "recover"
  BY Zenon DEF Recover, Walking, producerVars
<1>2. PICK h, o :
              /\ h \in Writes(written) /\ o \in Writes(written)
              /\ Known(written, h, o, Mem!View.last_read)
              /\ CursorOK(written, h, o, cursor_abs, delivered)
              /\ WalkOK(written, h, o, cursor_abs, abs, snap.head, seen, delivered, batch)
              /\ StepOK(written, h, pc, abs, total_len, snap.head)
  BY <1>1, WalkFacts
<1> DEFINE view == Mem!View
<1>3. PICK m \in Mem!Visible(view, OldestAbs) :
        /\ Mem!Adopt(Mem!AfterAcquireLoad(view, OldestAbs, m))
        /\ \/ m.val > cursor_abs /\ Overwritten(m.val)
           \/ PollError("Wire")
  BY Zenon DEF Recover
<1>4. view \in ViewType /\ LogOK(written, stores)
  BY OwnView, Zenon DEF WriterOK
<1> HIDE DEF view
<1>5. PICK x : /\ Later(written, o, x) /\ m.val = Oldest(written, x)
               /\ Learned(view, Mem!AfterAcquireLoad(view, OldestAbs, m), h, x)
  BY <1>2, <1>4, OldestLoad, Zenon DEF view
<1>6. Mem!View' \in ViewType /\ Known(written, h, x, last_read')
  BY <1>3, <1>5, AdoptLearned
<1>7. CursorOK(written, h, x, cursor_abs, delivered)
  <2>1. h \in Nat
    BY <1>2, <1>4, LogTypes DEF Writes
  <2>2. Later(written, h, h)
    BY <1>2, <2>1 DEF Later
  <2> QED
    BY <1>2, <1>4, <1>5, <2>2, CursorLater, SMTT(30)
<1>8. CASE m.val > cursor_abs /\ Overwritten(m.val)
  BY <1>1, <1>5, <1>6, <1>7, <1>8, OverwrittenStep, SMTT(30)
<1>9. CASE PollError("Wire")
  <2>1. cursor_abs \in Nat /\ abs \in Nat /\ cursor_abs <= abs /\ Lapped(written, abs)
    BY <1>1, <1>2, Zenon DEF CursorOK, WalkOK, StepOK
  <2>2. Lapped(written, cursor_abs)
    BY <1>4, <2>1, LappedCursor
  <2> QED
    BY <1>1, <1>6, <1>7, <1>9, <2>2, ErrorStep, SMTT(30)
<1> QED
  BY <1>3, <1>8, <1>9

\* The reader's processor is brought up to date.
LEMMA PropagateStep ==
    ASSUME WriterOK(written), ReaderInv, Propagate
    PROVE  ReaderInv'
<1>1. /\ seen < stores /\ seen' = stores
      /\ UNCHANGED <<acquired, last_read, written, pc, snap, abs, total_len, batch>>
      /\ UNCHANGED <<cursor_abs, delivered, failure>>
  BY DEF Propagate, Mem!Propagate, producerVars, consumerVars, pollVars
<1>2. stores \in Nat /\ LogOK(written, stores)
  BY Zenon DEF WriterOK
<1>3. Mem!View' \in ViewType /\ seen \in Nat
  <2>1. /\ Mem!View = [seen |-> seen, acquired |-> acquired, last_read |-> last_read]
        /\ Mem!View' = [seen |-> seen', acquired |-> acquired', last_read |-> last_read']
    BY Zenon DEF Mem!View
  <2>2. Mem!View \in ViewType
    BY Zenon DEF ReaderInv
  <2> QED
    BY <1>1, <1>2, <2>1, <2>2 DEF ViewType
<1>4. PICK h, o : h \in Writes(written) /\ o \in Writes(written) /\ ReaderAt(h, o)
  BY Zenon DEF ReaderInv
<1>5. ASSUME Walking
      PROVE  WalkOK(written, h, o, cursor_abs, abs, snap.head, seen', delivered, batch)
  <2>1. WalkOK(written, h, o, cursor_abs, abs, snap.head, seen, delivered, batch)
    BY <1>4, <1>5, Zenon DEF ReaderAt
  <2>2. Oldest(written, o) <= abs
    BY <2>1, Zenon DEF WalkOK
  <2>3. seen <= stores
    BY <1>1, <1>2, <1>3
  <2> QED
    BY <1>1, <1>2, <1>3, <1>4, <2>1, <2>2, <2>3, WalkLater, SMTT(30)
<1>6. Walking' = Walking
  BY <1>1, Zenon DEF Walking
<1>7. ReaderAt(h, o)'
  BY <1>1, <1>4, <1>5, <1>6 DEF ReaderAt
<1> QED
  BY <1>1, <1>3, <1>4, <1>6, <1>7, SMTT(30) DEF ReaderInv

-----------------------------------------------------------------------------
(* The reader's actions: the cells.                                         *)

\* Where the walk is, taken apart.
LEMMA WalkAt ==
    ASSUME WriterOK(written), ReaderInv, Walking, abs < snap.head
    PROVE  \E h, o :
              /\ h \in Writes(written) /\ o \in Writes(written) /\ HeadAt(written, h) <= seen
              /\ abs \in Nat /\ abs < End(written, h) /\ Mark(written, abs)
              /\ Lapped(written, abs) => Lapped(written, cursor_abs)
              /\ Known(written, h, o, Mem!View.last_read)
              /\ CursorOK(written, h, o, cursor_abs, delivered)
              /\ WalkOK(written, h, o, cursor_abs, abs, snap.head, seen, delivered, batch)
              /\ StepOK(written, h, pc, abs, total_len, snap.head)
              /\ Oldest(written, o) <= abs
<1>1. PICK h, o :
              /\ h \in Writes(written) /\ o \in Writes(written)
              /\ Known(written, h, o, Mem!View.last_read)
              /\ CursorOK(written, h, o, cursor_abs, delivered)
              /\ WalkOK(written, h, o, cursor_abs, abs, snap.head, seen, delivered, batch)
              /\ StepOK(written, h, pc, abs, total_len, snap.head)
  BY WalkFacts
<1>2. /\ HeadAt(written, h) <= seen /\ abs \in Nat /\ abs < End(written, h)
      /\ Mark(written, abs) /\ cursor_abs <= abs /\ cursor_abs \in Nat
      /\ Oldest(written, o) <= abs
  BY <1>1, Zenon DEF WalkOK, CursorOK
<1>3. Lapped(written, abs) => Lapped(written, cursor_abs)
  BY <1>2, LappedCursor, Zenon DEF WriterOK
<1> QED
  BY <1>1, <1>2, <1>3, Zenon

\* Going on at another step, from a view that knows no more of the head and the oldest.
LEMMA GoOn ==
    ASSUME WriterOK(written), ReaderInv, UNCHANGED written,
           NEW h, NEW o, h \in Writes(written), o \in Writes(written),
           NEW view, view \in ViewType, view.seen >= seen, Mem!Adopt(view),
           Known(written, h, o, view.last_read),
           CursorOK(written, h, o, cursor_abs, delivered),
           NEW a, NEW recs,
           WalkOK(written, h, o, cursor_abs, a, snap.head, seen, delivered, recs),
           NEW step, NEW len, Continue(step, a, len, recs),
           step \in {"walk", "header", "body", "recover"}, len \in Nat,
           StepOK(written, h, step, a, len, snap.head)
    PROVE  ReaderInv'
<1>1. Mem!View' \in ViewType /\ seen' = view.seen /\ last_read' = view.last_read
  BY AdoptView, Zenon
<1>2. seen \in Nat /\ view.seen \in Nat
  BY OwnView DEF ViewType
<1>3. seen <= view.seen /\ Oldest(written, o) <= a /\ LogOK(written, stores)
  <2>1. Oldest(written, o) <= a /\ LogOK(written, stores)
    BY Zenon DEF WalkOK, WriterOK
  <2> QED
    BY <1>2, <2>1
<1>4. WalkOK(written, h, o, cursor_abs, a, snap.head, seen', delivered, recs)
  BY <1>1, <1>2, <1>3, WalkLater, Zenon
<1>5. failure # "none" => Lapped(written, cursor_abs)
  BY Zenon DEF ReaderInv
<1>6. Known(written, h, o, last_read')
  BY <1>1, Zenon
<1> QED
  BY <1>1, <1>4, <1>5, <1>6, ContinueStep, Zenon

\* The first cell of a record, or a wrap marker.
LEMMA ReadFirstStep ==
    ASSUME WriterOK(written), ReaderInv, ReadFirst
    PROVE  ReaderInv'
<1>1. pc = "walk" /\ Walking /\ abs < snap.head /\ UNCHANGED written
  BY DEF ReadFirst, Walking, producerVars
<1>2. PICK h, o :
              /\ h \in Writes(written) /\ o \in Writes(written) /\ HeadAt(written, h) <= seen
              /\ abs \in Nat /\ abs < End(written, h) /\ Mark(written, abs)
              /\ Lapped(written, abs) => Lapped(written, cursor_abs)
              /\ Known(written, h, o, Mem!View.last_read)
              /\ CursorOK(written, h, o, cursor_abs, delivered)
              /\ WalkOK(written, h, o, cursor_abs, abs, snap.head, seen, delivered, batch)
  BY <1>1, WalkAt, Zenon
<1> DEFINE view == Mem!View
           p == Phys(abs)
           view1(m) == Mem!AfterRelaxedLoad(view, ByteAt(p), m)
           fits == p + HeaderLen <= Capacity
<1>3. PICK m \in Mem!Visible(view, ByteAt(p)) :
        /\ Mem!Adopt(view1(m))
        /\ \/ m.val = ZeroCell /\ p = 0 /\ PollError("UnexpectedWrapMarker")
           \/ m.val = ZeroCell /\ p # 0 /\ Continue("walk", abs + (Capacity - p), 0, batch)
           \/ m.val # ZeroCell /\ ~fits /\ PollError("RecordCrossesBoundary")
           \/ m.val # ZeroCell /\ fits /\ Continue("header", abs, 0, batch)
  <2>1. p + HeaderLen > Capacity => ~fits
    BY <1>2, PhysType, GeometryAssumption
  <2> QED
    BY <2>1 DEF ReadFirst, IsZero
<1> DEFINE v == view1(m)
<1>4. p \in Position
  BY <1>2, PhysType, Zenon DEF Position
<1>5. view \in ViewType /\ view.seen = seen /\ seen \in Nat
  BY OwnView, Zenon
<1>6. Fresh(messages, ByteAt(p), m, seen) /\ Learned(view, v, h, o)
  <2> HIDE DEF view, p
  <2>1. Known(written, h, o, view.last_read)
    BY <1>2 DEF view
  <2> QED
    BY <1>4, <1>5, <2>1, CellLoad
<1> HIDE DEF view, v, view1
<1>7. v \in ViewType /\ v.seen >= seen /\ Known(written, h, o, v.last_read) /\ Mem!Adopt(v)
  BY <1>3, <1>5, <1>6 DEF Learned, v
<1>8. Mem!View' \in ViewType /\ Known(written, h, o, last_read')
  BY <1>7, AdoptView, Zenon
<1>9. \/ Lapped(written, abs)
      \/ /\ \E w \in 1 .. h : Start(written, w) = abs
         /\ m.val = SyncCell /\ fits
      \/ p # 0 /\ m.val = ZeroCell
  BY <1>2, <1>5, <1>6, FirstCell, Zenon
<1>10. SyncCell # ZeroCell
  BY Zenon DEF SyncCell, ZeroCell
<1> HIDE DEF p, fits
<1>11. CASE m.val = ZeroCell /\ p = 0 /\ PollError("UnexpectedWrapMarker")
  <2>1. Lapped(written, cursor_abs)
    BY <1>2, <1>9, <1>10, <1>11, Zenon
  <2> QED
    BY <1>1, <1>2, <1>8, <1>11, <2>1, ErrorStep, Zenon
<1>12. CASE m.val = ZeroCell /\ p # 0 /\ Continue("walk", abs + (Capacity - p), 0, batch)
  <2> DEFINE b == abs + (Capacity - p)
  <2>1. WalkOK(written, h, o, cursor_abs, b, snap.head, seen, delivered, batch)
    BY <1>2, <1>12, NextLapOK DEF p, WriterOK
  <2> HIDE DEF b
  <2>2. StepOK(written, h, "walk", b, 0, snap.head)
    BY DEF StepOK
  <2>3. Continue("walk", b, 0, batch)
    BY <1>12 DEF b
  <2>4. 0 \in Nat /\ "walk" \in {"walk", "header", "body", "recover"}
    OBVIOUS
  <2> QED
    BY <1>1, <1>2, <1>7, <2>1, <2>2, <2>3, <2>4, GoOn, Zenon
<1>13. CASE m.val # ZeroCell /\ ~fits /\ PollError("RecordCrossesBoundary")
  <2>1. Lapped(written, cursor_abs)
    BY <1>2, <1>9, <1>13, Zenon
  <2> QED
    BY <1>1, <1>2, <1>8, <1>13, <2>1, ErrorStep, Zenon
<1>14. CASE m.val # ZeroCell /\ fits /\ Continue("header", abs, 0, batch)
  <2>1. Lapped(written, abs) \/ \E w \in 1 .. h : Start(written, w) = abs
    BY <1>9, <1>14, Zenon
  <2>2. StepOK(written, h, "header", abs, 0, snap.head)
    BY <1>1, <1>14, <2>1 DEF StepOK, fits, p
  <2>3. 0 \in Nat /\ "header" \in {"walk", "header", "body", "recover"}
    OBVIOUS
  <2> QED
    BY <1>1, <1>2, <1>7, <1>14, <2>2, <2>3, GoOn, Zenon
<1> QED
  BY <1>3, <1>11, <1>12, <1>13, <1>14, Zenon

\* The header of a record: its Sync, then its length.
LEMMA ReadHeaderStep ==
    ASSUME WriterOK(written), ReaderInv, ReadHeader
    PROVE  ReaderInv'
<1>1. pc = "header" /\ Walking /\ UNCHANGED written
  BY DEF ReadHeader, Walking, producerVars
<1>2. abs < snap.head
  BY <1>1, WalkFacts DEF StepOK
<1>3. PICK h, o :
              /\ h \in Writes(written) /\ o \in Writes(written) /\ HeadAt(written, h) <= seen
              /\ abs \in Nat /\ abs < End(written, h) /\ Mark(written, abs)
              /\ Lapped(written, abs) => Lapped(written, cursor_abs)
              /\ Known(written, h, o, Mem!View.last_read)
              /\ CursorOK(written, h, o, cursor_abs, delivered)
              /\ WalkOK(written, h, o, cursor_abs, abs, snap.head, seen, delivered, batch)
              /\ StepOK(written, h, pc, abs, total_len, snap.head)
  BY <1>1, <1>2, WalkAt, Zenon
<1> DEFINE view == Mem!View
           p == Phys(abs)
           View1(m) == Mem!AfterRelaxedLoad(view, ByteAt(p), m)
           View2(m, n) == Mem!AfterRelaxedLoad(View1(m), ByteAt(p + 1), n)
           Lengthy(n) ==
              \E len \in LengthsIn(n.val) :
                \/ len < HeaderLen /\ Continue("recover", abs, 0, batch)
                \/ /\ len >= HeaderLen /\ p + len > Capacity
                   /\ PollError("RecordCrossesBoundary")
                \/ /\ len >= HeaderLen /\ p + len <= Capacity
                   /\ Continue("body", abs, len, batch)
<1>4. PICK m \in Mem!Visible(view, ByteAt(p)) :
        \/ m.val # SyncCell /\ Mem!Adopt(View1(m)) /\ Continue("recover", abs, 0, batch)
        \/ \E n \in Mem!Visible(View1(m), ByteAt(p + 1)) : Mem!Adopt(View2(m, n)) /\ Lengthy(n)
  BY DEF ReadHeader
<1>5. /\ p \in Position /\ p + 1 \in Position /\ p \in Nat /\ p + HeaderLen <= Capacity
      /\ Capacity \in Nat
  <2>1. p \in 0 .. (Capacity - 1) /\ p + HeaderLen <= Capacity
    BY <1>1, <1>3, PhysType, Zenon DEF StepOK
  <2> QED
    BY <2>1, GeometryAssumption DEF Position
<1>6. view \in ViewType /\ view.seen = seen /\ seen \in Nat
      /\ Known(written, h, o, view.last_read)
  BY <1>3, OwnView, Zenon
<1>7. Lapped(written, abs) \/ \E w \in 1 .. h : Start(written, w) = abs
  BY <1>1, <1>3, Zenon DEF StepOK
<1> DEFINE view1 == View1(m)
<1>8. Fresh(messages, ByteAt(p), m, seen) /\ Learned(view, view1, h, o)
  <2> HIDE DEF view, p
  <2> QED
    BY <1>5, <1>6, CellLoad
<1>9. view1 \in ViewType /\ view1.seen >= seen /\ Known(written, h, o, view1.last_read)
  BY <1>6, <1>8, Zenon DEF Learned
<1>10. {0} \subseteq Nat /\ {"recover", "body"} \subseteq {"walk", "header", "body", "recover"}
  OBVIOUS
<1>11. ASSUME Lapped(written, abs), NEW v, v \in ViewType, v.seen >= seen,
              Known(written, h, o, v.last_read), Mem!Adopt(v),
              Continue("recover", abs, 0, batch)
       PROVE  ReaderInv'
  <2>1. StepOK(written, h, "recover", abs, 0, snap.head)
    BY <1>11 DEF StepOK
  <2> QED
    BY <1>1, <1>3, <1>10, <1>11, <2>1, GoOn, ZenonT(40)
<1>12. ASSUME NEW w \in 1 .. h, Start(written, w) = abs
       PROVE  /\ m.val = SyncCell \/ Lapped(written, abs)
              /\ RecLen(written, w) \in Nat /\ RecLen(written, w) >= HeaderLen
              /\ p + RecLen(written, w) <= Capacity
              /\ \A n, s : s \in Nat /\ s >= seen /\ Fresh(messages, ByteAt(p + 1), n, s)
                    => n.val = LenCell(RecLen(written, w)) \/ Lapped(written, abs)
  <2>1. LogOK(written, stores)
    BY Zenon DEF WriterOK
  <2>2. /\ written[w].shape \in Shape
        /\ RecLen(written, w) \in Nat /\ RecLen(written, w) > HeaderLen
        /\ RecLen(written, w) >= 3
        /\ p + RecLen(written, w) <= Capacity
        /\ \A k \in 0 .. RecLen(written, w) - 1 :
                /\ abs + k \in Nat
                /\ Stored(written, w, abs + k)
                /\ CellVal(written, w, abs + k) = CellOf(w, written[w].shape, k)
                /\ Phys(abs + k) = p + k
    BY <1>3, <1>12, <2>1, CellOfRecord, Zenon
  <2>3. 0 \in 0 .. RecLen(written, w) - 1 /\ 1 \in 0 .. RecLen(written, w) - 1
    BY <2>2
  <2>4. abs + 0 = abs /\ p + 0 = p /\ abs <= abs /\ abs <= abs + 1
    BY <1>3, <1>5
  <2>5. CellVal(written, w, abs) = SyncCell /\ Stored(written, w, abs)
    BY <2>2, <2>3, <2>4, RecordCellValues, Zenon
  <2>6. /\ CellVal(written, w, abs + 1) = LenCell(RecLen(written, w))
        /\ Stored(written, w, abs + 1) /\ abs + 1 \in Nat /\ Phys(abs + 1) = p + 1
    BY <2>2, <2>3, RecordCellValues, Zenon DEF RecLen
  <2>7. m.val = SyncCell \/ Lapped(written, abs)
    BY <1>3, <1>6, <1>8, <2>4, <2>5, WalkCell, Zenon
  <2>8. ASSUME NEW n, NEW s, s \in Nat, s >= seen, Fresh(messages, ByteAt(p + 1), n, s)
        PROVE  n.val = LenCell(RecLen(written, w)) \/ Lapped(written, abs)
    <3>1. HeadAt(written, h) \in Nat
      BY <1>3, <2>1, LogTypes, Zenon
    <3>2. HeadAt(written, h) <= s
      BY <1>3, <1>6, <2>8, <3>1, SMTT(30)
    <3> QED
      BY <1>3, <2>4, <2>6, <2>8, <3>2, WalkCell, ZenonT(40)
  <2>9. RecLen(written, w) >= HeaderLen
    BY <2>2, GeometryAssumption
  <2> QED
    BY <2>2, <2>7, <2>8, <2>9, Zenon
<1> HIDE DEF view
<1>13. CASE m.val # SyncCell /\ Mem!Adopt(view1) /\ Continue("recover", abs, 0, batch)
  <2> HIDE DEF view1
  <2> QED
    BY <1>7, <1>9, <1>11, <1>12, <1>13, Zenon
<1>14. CASE \E n \in Mem!Visible(view1, ByteAt(p + 1)) : Mem!Adopt(View2(m, n)) /\ Lengthy(n)
  <2> HIDE DEF Lengthy
  <2>1. PICK n \in Mem!Visible(view1, ByteAt(p + 1)) : Mem!Adopt(View2(m, n)) /\ Lengthy(n)
    BY <1>14
  <2> DEFINE view2 == Mem!AfterRelaxedLoad(view1, ByteAt(p + 1), n)
  <2>2. Mem!Adopt(view2)
    BY <2>1, SMTT(30)
  <2> HIDE DEF View1, View2, view1, p
  <2>3. /\ Fresh(messages, ByteAt(p + 1), n, view1.seen) /\ n \in messages[ByteAt(p + 1)]
        /\ Learned(view1, view2, h, o)
    BY <1>5, <1>9, CellLoad, SMTT(30)
  <2> HIDE DEF view2
  <2>4. view1.seen \in Nat /\ view2 \in ViewType /\ view2.seen \in Nat
        /\ Known(written, h, o, view2.last_read) /\ view2.seen >= view1.seen
    BY <1>9, <2>3 DEF Learned, ViewType
  <2>5. view2.seen >= seen
    BY <1>6, <1>9, <2>4
  <2>6. Mem!View' \in ViewType /\ Known(written, h, o, last_read')
    BY <2>2, <2>4, AdoptView, Zenon
  <2>7. PICK len \in LengthsIn(n.val) :
                \/ len < HeaderLen /\ Continue("recover", abs, 0, batch)
                \/ /\ len >= HeaderLen /\ p + len > Capacity
                   /\ PollError("RecordCrossesBoundary")
                \/ /\ len >= HeaderLen /\ p + len <= Capacity
                   /\ Continue("body", abs, len, batch)
    BY <2>1 DEF Lengthy
  <2>8. len \in Nat
    BY <1>5, <2>3, <2>7, LengthType, Zenon
  <2>9. \/ Lapped(written, abs)
        \/ \E w \in 1 .. h : Start(written, w) = abs /\ len = RecLen(written, w)
    <3>1. ASSUME NEW k, n.val = LenCell(k) PROVE len = k
      <4>1. LengthsIn(LenCell(k)) = {k}
        BY DEF LengthsIn, LenCell
      <4> QED
        BY <2>7, <3>1, <4>1, Zenon
    <3> QED
      BY <1>7, <1>9, <1>12, <2>3, <2>4, <3>1, Zenon
  <2>10. ASSUME ~Lapped(written, abs) PROVE len >= HeaderLen /\ p + len <= Capacity
    BY <1>12, <2>9, <2>10, Zenon
  <2>11. CASE len < HeaderLen /\ Continue("recover", abs, 0, batch)
    <3>1. ~(len >= HeaderLen)
      BY <2>8, <2>11, GeometryAssumption
    <3>2. Lapped(written, abs)
      BY <2>10, <3>1, Zenon
    <3> QED
      BY <1>11, <2>2, <2>4, <2>5, <2>11, <3>2, Zenon
  <2>12. CASE p + len > Capacity /\ PollError("RecordCrossesBoundary")
    <3>1. ~(p + len <= Capacity)
      BY <1>5, <2>8, <2>12
    <3>2. Lapped(written, cursor_abs)
      BY <1>3, <2>10, <3>1, Zenon
    <3> QED
      BY <1>1, <1>3, <2>6, <2>12, <3>2, ErrorStep, ZenonT(40)
  <2>13. CASE len >= HeaderLen /\ p + len <= Capacity /\ Continue("body", abs, len, batch)
    <3>1. HeaderLen <= len
      BY <2>8, <2>13, GeometryAssumption, SMTT(30)
    <3>2. StepOK(written, h, "body", abs, len, snap.head)
      BY <1>2, <2>9, <2>13, <3>1, SMTT(30) DEF StepOK, p
    <3> QED
      BY <1>1, <1>3, <1>10, <2>2, <2>4, <2>5, <2>8, <2>13, <3>2, GoOn, Zenon
  <2> QED
    BY <2>7, <2>11, <2>12, <2>13, Zenon
<1> QED
  BY <1>4, <1>13, <1>14, SMTT(30)

\* The cells of a record: copied, the oldest checked again, and decoded.
LEMMA ReadBodyStep ==
    ASSUME WriterOK(written), Ordered, ReaderInv, ReadBody,
           \A r \in BodyReads(Phys(abs), total_len) : CopiedCells(r, Phys(abs), total_len)
    PROVE  ReaderInv'
<1>1. pc = "body" /\ Walking /\ UNCHANGED written
  BY DEF ReadBody, Walking, producerVars
<1>2. abs < snap.head
  BY <1>1, WalkFacts DEF StepOK
<1>3. PICK h, o :
              /\ h \in Writes(written) /\ o \in Writes(written) /\ HeadAt(written, h) <= seen
              /\ abs \in Nat /\ abs < End(written, h) /\ Mark(written, abs)
              /\ Known(written, h, o, Mem!View.last_read)
              /\ CursorOK(written, h, o, cursor_abs, delivered)
              /\ WalkOK(written, h, o, cursor_abs, abs, snap.head, seen, delivered, batch)
              /\ StepOK(written, h, pc, abs, total_len, snap.head)
  BY <1>1, <1>2, WalkAt, Zenon
<1> DEFINE View1(r) == acquire_before_recheck(r.view)
           View2(r, k) == Mem!AfterRelaxedLoad(View1(r), OldestAbs, k)
           Outcome(r, k) ==
              \/ k.val > abs /\ Overwritten(k.val)
              \/ /\ k.val <= abs
                 /\ \E rec \in Decoded(r.cells) :
                        Continue("walk", abs + total_len, 0,
                                 Append(batch, [start |-> abs, rec |-> rec]))
              \/ /\ k.val <= abs /\ Decoded(r.cells) = {}
                 /\ Continue("recover", abs, 0, batch)
<1>4. PICK r \in BodyReads(Phys(abs), total_len) :
        \E k \in Mem!Visible(View1(r), OldestAbs) : Mem!Adopt(View2(r, k)) /\ Outcome(r, k)
  BY DEF ReadBody
<1>5. PICK k \in Mem!Visible(View1(r), OldestAbs) : Mem!Adopt(View2(r, k)) /\ Outcome(r, k)
  BY <1>4
<1> HIDE DEF Outcome
<1> DEFINE view1 == View1(r)
           view2 == Mem!AfterRelaxedLoad(view1, OldestAbs, k)
<1>6. Mem!Adopt(view2) /\ k \in Mem!Visible(view1, OldestAbs)
  BY <1>5
<1>7. CopiedCells(r, Phys(abs), total_len)
  BY <1>4, Zenon
<1>8. /\ total_len \in Nat /\ total_len >= HeaderLen /\ Phys(abs) + total_len <= Capacity
  <2>1. total_len \in Nat /\ HeaderLen <= total_len /\ Phys(abs) + total_len <= Capacity
    BY <1>1, <1>3, ZenonT(40) DEF StepOK, ReaderInv
  <2> QED
    BY <2>1, GeometryAssumption
<1>9. /\ view1 \in ViewType /\ view1.seen >= r.view.seen
      /\ view1.last_read = r.view.last_read /\ r.view.seen >= seen
      /\ r.view.seen \in Nat /\ view1.seen \in Nat /\ seen \in Nat
  <2>1. r.view \in ViewType /\ r.view.seen >= seen
    BY <1>7, Zenon DEF CopiedCells
  <2>2. /\ view1 \in ViewType /\ view1.seen >= r.view.seen
        /\ view1.last_read = r.view.last_read
    BY <2>1, RecheckView
  <2>3. seen \in Nat
    BY OwnView, ZenonT(40)
  <2> HIDE DEF View1
  <2> QED
    BY <2>1, <2>2, <2>3 DEF ViewType
<1>10. Known(written, h, o, view1.last_read)
  <2>1. Known(written, h, o, last_read)
    BY <1>3, OwnView, Zenon
  <2> QED
    BY <1>7, <1>9, <2>1, SMTT(30) DEF CopiedCells, Known
<1>11. view1 = acquire_before_recheck(r.view)
  BY SMTT(30)
<1> HIDE DEF View1, View2, view1
<1>12. PICK x : /\ Later(written, o, x) /\ k.val = Oldest(written, x)
                /\ Learned(view1, view2, h, x)
  BY <1>6, <1>9, <1>10, OldestLoad, Zenon
<1> HIDE DEF view2
<1>13. /\ view2 \in ViewType /\ view2.seen \in Nat /\ view2.seen >= view1.seen
       /\ Known(written, h, x, view2.last_read)
  BY <1>12 DEF Learned, ViewType
<1>14. view2.seen >= seen
  BY <1>9, <1>13
<1>15. Mem!View' \in ViewType /\ Known(written, h, x, last_read')
  BY <1>6, <1>13, AdoptView, Zenon
<1>16. LogOK(written, stores) /\ x \in Writes(written)
  BY <1>12, Zenon DEF WriterOK, Later
<1>17. CursorOK(written, h, x, cursor_abs, delivered)
  <2>1. h \in Writes(written) /\ h <= h
    <3>1. h \in Writes(written)
      BY <1>3, Zenon
    <3> QED
      BY <3>1 DEF Writes
  <2>2. Later(written, h, h)
    BY <2>1, Zenon DEF Later
  <2> QED
    BY <1>3, <1>12, <1>16, <2>2, CursorLater, ZenonT(40)
<1>18. CASE k.val > abs /\ Overwritten(k.val)
  <2>1. cursor_abs \in Nat /\ cursor_abs <= abs
    BY <1>3, Zenon DEF CursorOK, WalkOK
  <2>2. Oldest(written, x) \in Nat /\ Oldest(written, x) > abs
    BY <1>12, <1>16, <1>18, LogTypes, ZenonT(40)
  <2>3. Oldest(written, x) > cursor_abs
    BY <1>3, <2>1, <2>2
  <2>4. Overwritten(Oldest(written, x))
    BY <1>12, <1>18, Zenon
  <2> QED
    BY <1>1, <1>15, <1>17, <2>3, <2>4, OverwrittenStep, Zenon
<1>19. ASSUME k.val <= abs
       PROVE  /\ Rechecked(r, abs, total_len, h, o, view1, k)
              /\ WalkOK(written, h, x, cursor_abs, abs, snap.head, seen, delivered, batch)
  <2>1. Rechecked(r, abs, total_len, h, o, view1, k)
    BY <1>3, <1>6, <1>7, <1>8, <1>9, <1>10, <1>11, <1>19, Zenon DEF Rechecked
  <2>2. Oldest(written, x) <= abs /\ seen <= seen
    <3>1. Oldest(written, x) <= abs
      BY <1>12, <1>19, Zenon
    <3>2. seen \in Nat
      BY <1>9, Zenon
    <3> QED
      BY <3>1, <3>2
  <2> QED
    BY <1>3, <1>9, <1>16, <2>1, <2>2, WalkLater, Zenon
<1>20. ASSUME k.val <= abs, NEW rec \in Decoded(r.cells),
              Continue("walk", abs + total_len, 0,
                       Append(batch, [start |-> abs, rec |-> rec]))
       PROVE  ReaderInv'
  <2>1. /\ rec \in 1 .. h /\ Start(written, rec) = abs
        /\ RecLen(written, rec) = total_len
    BY <1>3, <1>8, <1>19, <1>20, DecodedIsCurrent, Zenon
  <2> DEFINE b == abs + total_len
             B == Append(batch, [start |-> abs, rec |-> rec])
  <2>2. WalkOK(written, h, x, cursor_abs, b, snap.head, seen, delivered, B)
    BY <1>3, <1>16, <1>17, <1>19, <1>20, <2>1, AcceptOK, Zenon
  <2>3. Continue("walk", b, 0, B)
    BY <1>20
  <2> HIDE DEF b, B
  <2>4. StepOK(written, h, "walk", b, 0, snap.head)
    BY DEF StepOK
  <2>5. 0 \in Nat /\ "walk" \in {"walk", "header", "body", "recover"}
    OBVIOUS
  <2> QED
    BY <1>1, <1>3, <1>6, <1>13, <1>14, <1>16, <1>17, <2>2, <2>3, <2>4, <2>5, GoOn, Zenon
<1>21. ASSUME k.val <= abs, Decoded(r.cells) = {}, Continue("recover", abs, 0, batch)
       PROVE  ReaderInv'
  <2>1. \/ Lapped(written, abs)
        \/ \E w \in 1 .. h : Start(written, w) = abs /\ RecLen(written, w) = total_len
    BY <1>1, <1>3, Zenon DEF StepOK
  <2>2. ASSUME NEW w \in 1 .. h, Start(written, w) = abs, RecLen(written, w) = total_len
        PROVE  FALSE
    BY <1>19, <1>21, <2>2, CurrentIsDecoded, Zenon
  <2>3. Lapped(written, abs)
    BY <2>1, <2>2, Zenon
  <2>4. StepOK(written, h, "recover", abs, 0, snap.head)
    BY <2>3 DEF StepOK
  <2>5. 0 \in Nat /\ "recover" \in {"walk", "header", "body", "recover"}
    OBVIOUS
  <2> QED
    BY <1>1, <1>3, <1>6, <1>13, <1>14, <1>16, <1>17, <1>19, <1>21, <2>4, <2>5, GoOn, Zenon
<1> QED
  BY <1>5, <1>18, <1>20, <1>21, Zenon DEF Outcome

=============================================================================
