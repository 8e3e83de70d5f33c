-------------------------- MODULE WorkerLinkProofs --------------------------
(***************************************************************************)
(* Proofs about WorkerLink, for every size of the bundle and of the pipe,  *)
(* and every number of updates.                                            *)
(*                                                                         *)
(* The bundle and the cancel message share a pipe without a lock.  The     *)
(* invariant gives every unit an author: the size comes from the sender,   *)
(* once, and a cancel message from a goroutine that goes on to close the   *)
(* pipe.  A worker that took the right number of units therefore has the   *)
(* archive, or somebody is about to stop it.                               *)
(***************************************************************************)
EXTENDS WorkerLink, SequenceTheorems, TLAPS

USE LinkAssumption

Units == {"size", "block", "cancel"}
Messages == {"update", "garbage"}
Early == {"upload", "pack", "start"}

(* Every variable but the flags has its type. *)
WordInv ==
    /\ kind \in Kinds
    /\ pc \in Early \cup {"decode", "drain", "wait", "join", "cleanup", "returned"}
    /\ sender \in {"none", "size", "copy", "done", "failed"}
    /\ canceler \in [Cancelers -> {"none", "write", "close", "over"}]
    /\ child \in {"none", "running", "exited"}
    /\ exit \in {"none", "ok", "error", "killed"}
    /\ worker \in {"none", "size", "archive", "running", "ended"}

QueueInv ==
    /\ input \in Seq(Units) /\ got \in Seq({"block", "cancel"})
    /\ output \in Seq(Messages)
    /\ copied \in Nat /\ emitted \in Nat /\ saved \in Nat

TypeInv == WordInv /\ QueueInv

(* What the goroutine of the environment relies on at each of its places.  *)
PlaceInv ==
    /\ pc \in Early =>
            /\ child = "none" /\ exit = "none" /\ worker = "none"
            /\ ~open /\ sender = "none" /\ input = <<>> /\ output = <<>>
            /\ got = <<>> /\ emitted = 0 /\ saved = 0
            /\ canceler = [c \in Cancelers |-> "none"]
    /\ pc = "upload" => Remote
    /\ pc \in {"wait", "join", "cleanup", "returned"} => child # "running"
    /\ pc \in {"join", "cleanup", "returned"} => ~open
    /\ pc \in {"cleanup", "returned"} => sender \in {"none", "done", "failed"}
    /\ pc \in {"wait", "join"} => output = <<>>

(* A directory is only made behind ssh, and one that is left is reported. *)
DirInv ==
    /\ dir => Remote
    /\ pc = "returned" /\ dir => err # {}

(* Why somebody cancels, and what a goroutine that has done so leaves. *)
CancelInv ==
    /\ \A c \in Cancelers : canceler[c] = "over" => ~open
    /\ pc \in Early \cup {"decode"} => err = {}
    /\ pc = "drain" => err # {}
    /\ ~ctx => canceler["context"] = "none"
    /\ err = {} => canceler["failure"] = "none"

Has(q, unit) == \E i \in 1 .. Len(q) : q[i] = unit
OneSize(q) ==
    \A i, j \in 1 .. Len(q) : q[i] = "size" /\ q[j] = "size" => i = j

Told == \E c \in Cancelers : canceler[c] \in {"close", "over"}

(* The units in the pipe and in the archive: the size comes once and is    *)
(* the first the worker accepts, and a cancel message has an author.       *)
UnitInv ==
    /\ OneSize(input)
    /\ sender \in {"none", "size"} => ~Has(input, "size")
    /\ worker \in {"archive", "running"} =>
            ~Has(input, "size") /\ sender # "size"
    /\ Has(input, "cancel") \/ Has(got, "cancel") => Told
    /\ Len(got) <= Blocks
    /\ worker = "running" \/ exit = "ok" => Len(got) = Blocks

(* How the process ends, and where its updates are. *)
EndInv ==
    /\ exit = "ok" => worker = "ended"
    /\ exit # "none" => child = "exited"
    /\ err = {} /\ (child # "exited" \/ exit = "ok") =>
            emitted = saved + Len(output)
    /\ pc \in {"cleanup", "returned"} /\ err = {} =>
            Intact /\ exit = "ok" /\ saved = emitted /\ saved > 0

IInv == TypeInv /\ PlaceInv /\ DirInv /\ CancelInv /\ UnitInv /\ EndInv

-----------------------------------------------------------------------------
(* Facts about sequences of units.                                         *)

(* A unit that is appended is the only new one. *)
LEMMA AppendUnits ==
    ASSUME NEW q \in Seq(Units), NEW u \in Units
    PROVE  /\ Append(q, u) \in Seq(Units) /\ Len(Append(q, u)) = Len(q) + 1
           /\ \A v : Has(Append(q, u), v) => Has(q, v) \/ u = v
           /\ OneSize(q) /\ (u = "size" => ~Has(q, "size"))
                => OneSize(Append(q, u))
<1> DEFINE new == Append(q, u)
<1>1. /\ new \in Seq(Units) /\ Len(new) = Len(q) + 1 /\ Len(q) \in Nat
      /\ \A i \in 1 .. Len(q) : new[i] = q[i]
      /\ new[Len(q) + 1] = u
  BY AppendProperties, LenProperties
<1> HIDE DEF new
<1>2. \A i \in 1 .. Len(new) : i \in 1 .. Len(q) \/ i = Len(q) + 1
  BY <1>1
<1>3. \A v : Has(new, v) => Has(q, v) \/ u = v
  BY <1>1, <1>2 DEF Has
<1>4. ASSUME OneSize(q), u = "size" => ~Has(q, "size")
      PROVE  OneSize(new)
  <2> SUFFICES ASSUME NEW i \in 1 .. Len(new), NEW j \in 1 .. Len(new),
                      new[i] = "size", new[j] = "size"
               PROVE  i = j
    BY DEF OneSize
  <2>1. CASE i \in 1 .. Len(q) /\ j \in 1 .. Len(q)
    BY <1>1, <1>4, <2>1 DEF OneSize
  <2>2. CASE i = Len(q) + 1 \/ j = Len(q) + 1
    BY <1>1, <1>2, <1>4, <2>2 DEF Has
  <2> QED
    BY <1>2, <2>1, <2>2
<1> QED
  BY <1>1, <1>3, <1>4 DEF new

(* A unit that is taken was there, and the rest stays in order. *)
LEMMA TailUnits ==
    ASSUME NEW q \in Seq(Units), q # <<>>
    PROVE  /\ Tail(q) \in Seq(Units) /\ Head(q) \in Units /\ Has(q, Head(q))
           /\ \A v : Has(Tail(q), v) => Has(q, v)
           /\ OneSize(q) => /\ OneSize(Tail(q))
                            /\ Head(q) = "size" => ~Has(Tail(q), "size")
<1>1. /\ Head(q) \in Units /\ Tail(q) \in Seq(Units) /\ Head(q) = q[1]
      /\ Len(q) \in Nat \ {0} /\ Len(Tail(q)) = Len(q) - 1
      /\ \A i \in 1 .. Len(Tail(q)) : Tail(q)[i] = q[i + 1]
  BY HeadTailProperties, EmptySeq
<1>2. \A i \in 1 .. Len(Tail(q)) : i + 1 \in 1 .. Len(q) /\ i + 1 # 1
  BY <1>1
<1>3. 1 \in 1 .. Len(q)
  BY <1>1
<1>4. Has(q, Head(q)) /\ \A v : Has(Tail(q), v) => Has(q, v)
  BY <1>1, <1>2, <1>3 DEF Has
<1>5. ASSUME OneSize(q)
      PROVE  OneSize(Tail(q)) /\ (Head(q) = "size" => ~Has(Tail(q), "size"))
  <2>1. \A i, j \in 1 .. Len(Tail(q)) : i + 1 = j + 1 => i = j
    BY <1>1
  <2> QED
    BY <1>1, <1>2, <1>3, <1>5, <2>1 DEF OneSize, Has
<1> QED
  BY <1>1, <1>4, <1>5

(* What a dead connection leaves of the pipe. *)
LEMMA PrefixUnits ==
    ASSUME NEW q \in Seq(Units), NEW n \in 0 .. Len(q)
    PROVE  /\ SubSeq(q, 1, n) \in Seq(Units)
           /\ \A v : Has(SubSeq(q, 1, n), v) => Has(q, v)
           /\ OneSize(q) => OneSize(SubSeq(q, 1, n))
<1> DEFINE new == SubSeq(q, 1, n)
<1>1. Len(q) \in Nat /\ \A i \in 1 .. Len(q) : q[i] \in Units
  BY LenProperties
<1>2. n \in Int /\ 1 .. n \subseteq 1 .. Len(q)
  BY <1>1
<1>3. /\ new \in Seq(Units) /\ Len(new) = (IF 1 <= n THEN n - 1 + 1 ELSE 0)
      /\ \A i \in 1 .. n - 1 + 1 : new[i] = q[1 + i - 1]
  BY <1>1, <1>2, SubSeqProperties
<1> HIDE DEF new
<1>4. Len(new) = n /\ \A i \in 1 .. n : new[i] = q[i]
  BY <1>1, <1>2, <1>3
<1> QED
  BY <1>2, <1>3, <1>4 DEF Has, OneSize, new

(* What the worker takes are units. *)
LEMMA GotUnits == TypeInv => got \in Seq(Units)
<1>1. {"block", "cancel"} \subseteq Units
  BY DEF Units
<1> QED
  BY <1>1, SeqMonotonic DEF TypeInv, QueueInv

(* The archive that was sent is the only one without a cancel message. *)
LEMMA WholeArchive ==
    ASSUME TypeInv, Len(got) = Blocks, ~Has(got, "cancel")
    PROVE  Intact
<1>1. got \in [1 .. Blocks -> {"block", "cancel"}]
  BY LenProperties DEF TypeInv, QueueInv
<1>2. \A i \in 1 .. Blocks : got[i] = "block"
  BY <1>1 DEF Has
<1> QED
  BY <1>1, <1>2 DEF Intact, Archive

-----------------------------------------------------------------------------
(* The invariant is kept.                                                  *)

(* Before anything has happened. *)
LEMMA InitInv == Init => IInv
<1> SUFFICES ASSUME Init PROVE IInv
  OBVIOUS
<1>1. <<>> \in Seq(Units) /\ <<>> \in Seq({"block", "cancel"})
      /\ <<>> \in Seq(Messages) /\ Len(<<>>) = 0
  OBVIOUS
<1>2. TypeInv
  BY <1>1 DEF Init, TypeInv, WordInv, QueueInv, Kinds, Cancelers, Early
<1>3. PlaceInv /\ DirInv /\ CancelInv
  BY DEF Init, PlaceInv, DirInv, CancelInv, Kinds, Cancelers, Early, Remote
<1>4. UnitInv
  BY <1>1 DEF Init, UnitInv, Has, OneSize
<1>5. EndInv
  BY <1>1 DEF Init, EndInv
<1> QED
  BY <1>2, <1>3, <1>4, <1>5 DEF IInv

(* Every variable keeps its type. *)
LEMMA WordKept == IInv /\ [Next]_vars => WordInv'
<1> SUFFICES ASSUME IInv, [Next]_vars PROVE WordInv'
  OBVIOUS
<1>0. WordInv
  BY DEF IInv, TypeInv
<1> USE <1>0 DEF WordInv, Early, Kinds, Cancelers
<1> USE DEF vars, main, link, senders, process, workers
<1>1. CASE Upload
  BY <1>1 DEF Upload, FailTo
<1>2. CASE Pack
  BY <1>2 DEF Pack, FailTo, After
<1>3. CASE Start
  BY <1>3 DEF Start
<1>4. CASE StartFails
  BY <1>4 DEF StartFails, FailTo, After
<1>5. CASE Decode
  BY <1>5 DEF Decode, GiveUp, FailTo
<1>6. CASE Drain
  BY <1>6 DEF Drain
<1>7. CASE Closed
  BY <1>7 DEF Closed
<1>8. CASE Wait
  BY <1>8 DEF Wait
<1>9. CASE Join
  <2>1. pc' \in {"cleanup", "returned"}
    BY <1>9 DEF Join, After
  <2> QED
    BY <1>9, <2>1 DEF Join
<1>10. CASE Cleanup
  BY <1>10 DEF Cleanup, FailTo
<1>11. CASE Send
  BY <1>11 DEF Send, Put, Broken
<1>12. CASE SendFails
  BY <1>12 DEF SendFails, Broken
<1>13. CASE Watch
  BY <1>13 DEF Watch
<1>14. CASE Kill
  BY <1>14 DEF Kill, Lose
<1>15. CASE Disconnect
  BY <1>15 DEF Disconnect, Lose
<1>16. CASE Cancel
  BY <1>16 DEF Cancel
<1>17. ASSUME NEW c \in Cancelers, WriteCancel(c) PROVE WordInv'
  BY <1>17 DEF WriteCancel, Put, Broken
<1>18. ASSUME NEW c \in Cancelers, CloseInput(c) PROVE WordInv'
  BY <1>18 DEF CloseInput
<1>19. CASE ReadSize
  BY <1>19 DEF ReadSize, Refuse
<1>20. CASE ReadArchive
  BY <1>20 DEF ReadArchive
<1>21. CASE ReadFile
  BY <1>21 DEF ReadFile
<1>22. CASE Accept
  BY <1>22 DEF Accept, WholeSize
<1>23. CASE Control
  BY <1>23 DEF Control
<1>24. CASE RefuseArchive
  BY <1>24 DEF RefuseArchive, Refuse
<1>25. CASE Emit
  BY <1>25 DEF Emit
<1>26. CASE WorkerEnds
  BY <1>26 DEF WorkerEnds
<1>27. CASE UNCHANGED vars
  BY <1>27
<1> QED
  BY <1>1, <1>2, <1>3, <1>4, <1>5, <1>6, <1>7, <1>8, <1>9, <1>10, <1>11,
     <1>12, <1>13, <1>14, <1>15, <1>16, <1>17, <1>18, <1>19, <1>20,
     <1>21, <1>22, <1>23, <1>24, <1>25, <1>26, <1>27
     DEF Next, MainStep, WorkerReads

(* What is on its way, and what has arrived. *)
LEMMA QueueKept == IInv /\ [Next]_vars => QueueInv'
<1> SUFFICES ASSUME IInv, [Next]_vars PROVE QueueInv'
  OBVIOUS
<1>0. QueueInv
  BY DEF IInv, TypeInv
<1>00. worker = "archive" => ~Has(input, "size")
  BY DEF IInv, UnitInv
<1> USE <1>0 DEF QueueInv
<1> USE DEF vars, main, link, senders, process, workers
<1>1. CASE Upload
  BY <1>1 DEF Upload, FailTo
<1>2. CASE Pack
  BY <1>2 DEF Pack, FailTo, After
<1>3. CASE Start
  BY <1>3 DEF Start
<1>4. CASE StartFails
  BY <1>4 DEF StartFails, FailTo, After
<1>5. CASE Decode
  BY <1>5 DEF Decode, GiveUp, FailTo
<1>6. CASE Drain
  BY <1>6 DEF Drain
<1>7. CASE Closed
  BY <1>7 DEF Closed
<1>8. CASE Wait
  BY <1>8 DEF Wait
<1>9. CASE Join
  BY <1>9 DEF Join, After
<1>10. CASE Cleanup
  BY <1>10 DEF Cleanup, FailTo
<1>11. CASE Send
  <2>1. \E u \in Units : input' = Append(input, u)
    BY <1>11 DEF Send, Put, Broken, Units
  <2>2. copied' \in Nat
    BY <1>11 DEF Send, Put, Broken
  <2> QED
    BY <1>11, <2>1, <2>2, AppendUnits DEF Send
<1>12. CASE SendFails
  BY <1>12 DEF SendFails, Broken
<1>13. CASE Watch
  BY <1>13 DEF Watch
<1>14. CASE Kill
  BY <1>14 DEF Kill, Lose
<1>15. CASE Disconnect
  BY <1>15 DEF Disconnect, Lose
<1>16. CASE Cancel
  BY <1>16 DEF Cancel
<1>17. ASSUME NEW c \in Cancelers, WriteCancel(c) PROVE QueueInv'
  <2>1. input' = input \/ input' = Append(input, "cancel")
    BY <1>17 DEF WriteCancel, Put, Broken
  <2>2. input' \in Seq(Units)
    BY <2>1, AppendUnits DEF Units
  <2> QED
    BY <1>17, <2>2 DEF WriteCancel
<1>18. ASSUME NEW c \in Cancelers, CloseInput(c) PROVE QueueInv'
  BY <1>18 DEF CloseInput
<1>19. CASE ReadSize
  <2>1. input' = input \/ (input # <<>> /\ input' = Tail(input))
    BY <1>19 DEF ReadSize
  <2>2. input' \in Seq(Units)
    BY <2>1, TailUnits
  <2>3. UNCHANGED <<got, output, copied, emitted, saved>>
    BY <1>19 DEF ReadSize, Refuse
  <2> QED
    BY <2>2, <2>3
<1>20. CASE ReadArchive
  <2>1. input # <<>> /\ input' = Tail(input) /\ got' = Append(got, Head(input))
    BY <1>20 DEF ReadArchive
  <2>2. Head(input) \in Units /\ Head(input) # "size" /\ input' \in Seq(Units)
    BY <1>20, <1>00, <2>1, TailUnits DEF ReadArchive
  <2>3. Head(input) \in {"block", "cancel"}
    BY <2>2 DEF Units
  <2>4. got' \in Seq({"block", "cancel"})
    BY <2>1, <2>3, AppendProperties
  <2> QED
    BY <1>20, <2>2, <2>4 DEF ReadArchive
<1>21. CASE ReadFile
  <2>1. Archive \in Seq({"block", "cancel"})
    BY DEF Archive
  <2> QED
    BY <1>21, <2>1 DEF ReadFile
<1>22. CASE Accept
  BY <1>22 DEF Accept, WholeSize
<1>23. CASE Control
  <2>1. input' = input \/ (input # <<>> /\ input' = Tail(input))
    BY <1>23 DEF Control
  <2>2. input' \in Seq(Units)
    BY <2>1, TailUnits
  <2> QED
    BY <1>23, <2>2 DEF Control
<1>24. CASE RefuseArchive
  BY <1>24 DEF RefuseArchive, Refuse
<1>25. CASE Emit
  <2>1. <<"update">> \in Seq(Messages) /\ <<"garbage">> \in Seq(Messages)
    BY DEF Messages
  <2>2. output' \in Seq(Messages)
    BY <1>25, <2>1 DEF Emit
  <2> QED
    BY <1>25, <2>2 DEF Emit
<1>26. CASE WorkerEnds
  BY <1>26 DEF WorkerEnds
<1>27. CASE UNCHANGED vars
  BY <1>27
<1> QED
  BY <1>1, <1>2, <1>3, <1>4, <1>5, <1>6, <1>7, <1>8, <1>9, <1>10, <1>11,
     <1>12, <1>13, <1>14, <1>15, <1>16, <1>17, <1>18, <1>19, <1>20,
     <1>21, <1>22, <1>23, <1>24, <1>25, <1>26, <1>27
     DEF Next, MainStep, WorkerReads

(* Each place has what it relies on. *)
LEMMA PlaceKept == IInv /\ [Next]_vars => PlaceInv'
<1> SUFFICES ASSUME IInv, [Next]_vars PROVE PlaceInv'
  OBVIOUS
<1>0. /\ PlaceInv
      /\ child \in {"none", "running", "exited"}
      /\ canceler \in [Cancelers -> {"none", "write", "close", "over"}]
  BY DEF IInv, TypeInv, WordInv
<1> USE <1>0 DEF PlaceInv, Early, Remote
<1> USE DEF vars, main, link, senders, process, workers
<1>1. CASE Upload
  BY <1>1 DEF Upload, FailTo
<1>2. CASE Pack
  BY <1>2 DEF Pack, FailTo, After
<1>3. CASE Start
  BY <1>3 DEF Start
<1>4. CASE StartFails
  BY <1>4 DEF StartFails, FailTo, After
<1>5. CASE Decode
  BY <1>5 DEF Decode, GiveUp, FailTo
<1>6. CASE Drain
  BY <1>6 DEF Drain
<1>7. CASE Closed
  BY <1>7 DEF Closed
<1>8. CASE Wait
  BY <1>8 DEF Wait
<1>9. CASE Join
  <2>1. pc' \in {"cleanup", "returned"} /\ pc = "join"
    BY <1>9 DEF Join, After
  <2> QED
    BY <1>9, <2>1 DEF Join, SenderOver
<1>10. CASE Cleanup
  BY <1>10 DEF Cleanup, FailTo
<1>11. CASE Send
  BY <1>11 DEF Send, Put, Broken
<1>12. CASE SendFails
  BY <1>12 DEF SendFails, Broken
<1>13. CASE Watch
  BY <1>13 DEF Watch
<1>14. CASE Kill
  BY <1>14 DEF Kill, Lose
<1>15. CASE Disconnect
  BY <1>15 DEF Disconnect, Lose
<1>16. CASE Cancel
  BY <1>16 DEF Cancel
<1>17. ASSUME NEW c \in Cancelers, WriteCancel(c) PROVE PlaceInv'
  BY <1>17 DEF WriteCancel, Put, Broken
<1>18. ASSUME NEW c \in Cancelers, CloseInput(c) PROVE PlaceInv'
  BY <1>18 DEF CloseInput
<1>19. CASE ReadSize
  <2>1. pc \notin Early
    BY <1>19 DEF ReadSize, Refuse
  <2>2. child' \in {child, "exited"}
    BY <1>19 DEF ReadSize, Refuse
  <2>3. UNCHANGED <<kind, pc, open, sender, output>>
    BY <1>19 DEF ReadSize, Refuse
  <2> QED
    BY <2>1, <2>2, <2>3
<1>20. CASE ReadArchive
  BY <1>20 DEF ReadArchive
<1>21. CASE ReadFile
  BY <1>21 DEF ReadFile
<1>22. CASE Accept
  BY <1>22 DEF Accept, WholeSize
<1>23. CASE Control
  BY <1>23 DEF Control
<1>24. CASE RefuseArchive
  <2>1. pc \notin Early
    BY <1>24 DEF RefuseArchive, Refuse
  <2>2. child' \in {child, "exited"}
    BY <1>24 DEF RefuseArchive, Refuse
  <2>3. UNCHANGED <<kind, pc, open, sender, output>>
    BY <1>24 DEF RefuseArchive, Refuse
  <2> QED
    BY <2>1, <2>2, <2>3
<1>25. CASE Emit
  BY <1>25 DEF Emit
<1>26. CASE WorkerEnds
  <2>1. pc \notin Early
    BY <1>26 DEF WorkerEnds
  <2>2. child' \in {child, "exited"}
    BY <1>26 DEF WorkerEnds
  <2>3. UNCHANGED <<kind, pc, open, sender, output>>
    BY <1>26 DEF WorkerEnds
  <2> QED
    BY <2>1, <2>2, <2>3
<1>27. CASE UNCHANGED vars
  BY <1>27
<1> QED
  BY <1>1, <1>2, <1>3, <1>4, <1>5, <1>6, <1>7, <1>8, <1>9, <1>10, <1>11,
     <1>12, <1>13, <1>14, <1>15, <1>16, <1>17, <1>18, <1>19, <1>20,
     <1>21, <1>22, <1>23, <1>24, <1>25, <1>26, <1>27
     DEF Next, MainStep, WorkerReads

(* Nothing stays behind in silence. *)
LEMMA DirKept == IInv /\ [Next]_vars => DirInv'
<1> SUFFICES ASSUME IInv, [Next]_vars PROVE DirInv'
  OBVIOUS
<1>0. DirInv /\ (pc = "upload" => Remote)
  BY DEF IInv, PlaceInv
<1> USE <1>0 DEF DirInv, Remote
<1> USE DEF vars, main, link, senders, process, workers
<1>1. CASE Upload
  BY <1>1 DEF Upload, FailTo
<1>2. CASE Pack
  BY <1>2 DEF Pack, FailTo, After
<1>3. CASE Start
  BY <1>3 DEF Start
<1>4. CASE StartFails
  BY <1>4 DEF StartFails, FailTo, After
<1>5. CASE Decode
  BY <1>5 DEF Decode, GiveUp, FailTo
<1>6. CASE Drain
  BY <1>6 DEF Drain
<1>7. CASE Closed
  BY <1>7 DEF Closed
<1>8. CASE Wait
  BY <1>8 DEF Wait
<1>9. CASE Join
  BY <1>9 DEF Join, After
<1>10. CASE Cleanup
  BY <1>10 DEF Cleanup, FailTo
<1>11. CASE Send
  BY <1>11 DEF Send, Put, Broken
<1>12. CASE SendFails
  BY <1>12 DEF SendFails, Broken
<1>13. CASE Watch
  BY <1>13 DEF Watch
<1>14. CASE Kill
  BY <1>14 DEF Kill, Lose
<1>15. CASE Disconnect
  BY <1>15 DEF Disconnect, Lose
<1>16. CASE Cancel
  BY <1>16 DEF Cancel
<1>17. ASSUME NEW c \in Cancelers, WriteCancel(c) PROVE DirInv'
  BY <1>17 DEF WriteCancel, Put, Broken
<1>18. ASSUME NEW c \in Cancelers, CloseInput(c) PROVE DirInv'
  BY <1>18 DEF CloseInput
<1>19. CASE ReadSize
  <2>1. UNCHANGED <<kind, pc, err>>
    BY <1>19 DEF ReadSize, Refuse
  <2>2. dir' => dir
    <3>1. dir' \in {dir, FALSE}
      BY <1>19 DEF ReadSize, Refuse
    <3> QED
      BY <3>1, Zenon
  <2> QED
    BY <2>1, <2>2
<1>20. CASE ReadArchive
  BY <1>20 DEF ReadArchive
<1>21. CASE ReadFile
  BY <1>21 DEF ReadFile
<1>22. CASE Accept
  BY <1>22 DEF Accept, WholeSize
<1>23. CASE Control
  BY <1>23 DEF Control
<1>24. CASE RefuseArchive
  <2>1. UNCHANGED <<kind, pc, err>>
    BY <1>24 DEF RefuseArchive, Refuse
  <2>2. dir' => dir
    <3>1. dir' \in {dir, FALSE}
      BY <1>24 DEF RefuseArchive, Refuse
    <3> QED
      BY <3>1, Zenon
  <2> QED
    BY <2>1, <2>2
<1>25. CASE Emit
  BY <1>25 DEF Emit
<1>26. CASE WorkerEnds
  <2>1. UNCHANGED <<kind, pc, err>>
    BY <1>26 DEF WorkerEnds
  <2>2. dir' => dir
    <3>1. dir' \in {dir, FALSE}
      BY <1>26 DEF WorkerEnds
    <3> QED
      BY <3>1, Zenon
  <2> QED
    BY <2>1, <2>2
<1>27. CASE UNCHANGED vars
  BY <1>27
<1> QED
  BY <1>1, <1>2, <1>3, <1>4, <1>5, <1>6, <1>7, <1>8, <1>9, <1>10, <1>11,
     <1>12, <1>13, <1>14, <1>15, <1>16, <1>17, <1>18, <1>19, <1>20,
     <1>21, <1>22, <1>23, <1>24, <1>25, <1>26, <1>27
     DEF Next, MainStep, WorkerReads

(* A cancel message has a reason. *)
LEMMA CancelKept == IInv /\ [Next]_vars => CancelInv'
<1> SUFFICES ASSUME IInv, [Next]_vars PROVE CancelInv'
  OBVIOUS
<1>0. /\ CancelInv
      /\ canceler \in [Cancelers -> {"none", "write", "close", "over"}]
      /\ pc \in Early => ~open /\ canceler = [c \in Cancelers |-> "none"]
  BY DEF IInv, TypeInv, WordInv, PlaceInv
<1> USE <1>0 DEF CancelInv, Early, Cancelers
<1> USE DEF vars, main, link, senders, process, workers
<1>1. CASE Upload
  BY <1>1 DEF Upload, FailTo
<1>2. CASE Pack
  BY <1>2 DEF Pack, FailTo, After
<1>3. CASE Start
  BY <1>3 DEF Start
<1>4. CASE StartFails
  BY <1>4 DEF StartFails, FailTo, After
<1>5. CASE Decode
  BY <1>5 DEF Decode, GiveUp, FailTo
<1>6. CASE Drain
  BY <1>6 DEF Drain
<1>7. CASE Closed
  BY <1>7 DEF Closed
<1>8. CASE Wait
  BY <1>8 DEF Wait
<1>9. CASE Join
  <2>1. pc' \in {"cleanup", "returned"} /\ UNCHANGED <<canceler, open, ctx>>
    BY <1>9 DEF Join, After
  <2>2. err' = {} => err = {}
    BY <1>9 DEF Join, Errors
  <2> QED
    BY <2>1, <2>2
<1>10. CASE Cleanup
  BY <1>10 DEF Cleanup, FailTo
<1>11. CASE Send
  BY <1>11 DEF Send, Put, Broken
<1>12. CASE SendFails
  BY <1>12 DEF SendFails, Broken
<1>13. CASE Watch
  BY <1>13 DEF Watch
<1>14. CASE Kill
  BY <1>14 DEF Kill, Lose
<1>15. CASE Disconnect
  BY <1>15 DEF Disconnect, Lose
<1>16. CASE Cancel
  BY <1>16 DEF Cancel
<1>17. ASSUME NEW c \in Cancelers, WriteCancel(c) PROVE CancelInv'
  BY <1>17 DEF WriteCancel, Put, Broken
<1>18. ASSUME NEW c \in Cancelers, CloseInput(c) PROVE CancelInv'
  BY <1>18 DEF CloseInput
<1>19. CASE ReadSize
  BY <1>19 DEF ReadSize, Refuse
<1>20. CASE ReadArchive
  BY <1>20 DEF ReadArchive
<1>21. CASE ReadFile
  BY <1>21 DEF ReadFile
<1>22. CASE Accept
  BY <1>22 DEF Accept, WholeSize
<1>23. CASE Control
  BY <1>23 DEF Control
<1>24. CASE RefuseArchive
  BY <1>24 DEF RefuseArchive, Refuse
<1>25. CASE Emit
  BY <1>25 DEF Emit
<1>26. CASE WorkerEnds
  BY <1>26 DEF WorkerEnds
<1>27. CASE UNCHANGED vars
  BY <1>27
<1> QED
  BY <1>1, <1>2, <1>3, <1>4, <1>5, <1>6, <1>7, <1>8, <1>9, <1>10, <1>11,
     <1>12, <1>13, <1>14, <1>15, <1>16, <1>17, <1>18, <1>19, <1>20,
     <1>21, <1>22, <1>23, <1>24, <1>25, <1>26, <1>27
     DEF Next, MainStep, WorkerReads

(* Steps that leave the units alone. *)
LEMMA UnitFrame ==
    ASSUME UnitInv, UNCHANGED <<input, got>>,
           sender' = sender \/ sender' \in {"copy", "done", "failed"},
           worker' = worker \/ worker' = "ended",
           exit' = exit \/ exit' # "ok" \/ worker = "running",
           Told => Told'
    PROVE  UnitInv'
BY DEF UnitInv, Has, OneSize

(* Every unit has an author. *)
LEMMA UnitKept == IInv /\ [Next]_vars => UnitInv'
<1> SUFFICES ASSUME IInv, [Next]_vars PROVE UnitInv'
  OBVIOUS
<1>0. UnitInv
  BY DEF IInv
<1>00. canceler' = canceler => (Told => Told')
  BY DEF Told
<1> USE DEF vars, main, link, senders, process, workers
<1>1. CASE Upload
  BY <1>1, <1>0, <1>00, UnitFrame DEF Upload, FailTo
<1>2. CASE Pack
  BY <1>2, <1>0, <1>00, UnitFrame DEF Pack, FailTo, After
<1>3. CASE Start
  <2>1. input = <<>> /\ input' = <<>> /\ got = <<>> /\ got' = <<>> /\ exit = "none"
    BY <1>3 DEF Start, IInv, PlaceInv, Early
  <2>2. Len(<<>>) = 0
    OBVIOUS
  <2>3. worker' \in {"archive", "size"} /\ exit' = exit
    BY <1>3 DEF Start
  <2>4. worker' = "archive" => sender' = "done"
    BY <1>3 DEF Start
  <2> QED
    BY <2>1, <2>2, <2>3, <2>4 DEF UnitInv, Has, OneSize
<1>4. CASE StartFails
  BY <1>4, <1>0, <1>00, UnitFrame DEF StartFails, FailTo, After
<1>5. CASE Decode
  <2>1. Told => Told'
    <3>1. canceler["failure"] = "none"
      BY <1>5 DEF Decode, IInv, CancelInv
    <3> QED
      BY <1>5, <3>1 DEF Decode, GiveUp, Told, IInv, TypeInv, WordInv, Cancelers
  <2> QED
    BY <1>5, <1>0, <2>1, UnitFrame DEF Decode, GiveUp, FailTo
<1>6. CASE Drain
  BY <1>6, <1>0, <1>00, UnitFrame DEF Drain
<1>7. CASE Closed
  BY <1>7, <1>0, <1>00, UnitFrame DEF Closed
<1>8. CASE Wait
  BY <1>8, <1>0, <1>00, UnitFrame DEF Wait
<1>9. CASE Join
  BY <1>9, <1>0, <1>00, UnitFrame DEF Join, After
<1>10. CASE Cleanup
  BY <1>10, <1>0, <1>00, UnitFrame DEF Cleanup, FailTo
<1>11. CASE Send
  <2>1. PICK u \in {"size", "block"} :
          /\ input' = Append(input, u)
          /\ u = "size" => sender = "size"
    BY <1>11 DEF Send, Put, Broken
  <2>2. sender' \in {"copy", "done"} /\ UNCHANGED <<got, canceler, worker, exit>>
    BY <1>11 DEF Send, Put, Broken
  <2>3. /\ \A v : Has(input', v) => Has(input, v) \/ u = v
        /\ OneSize(input')
    BY <1>0, <2>1, AppendUnits DEF IInv, TypeInv, QueueInv, UnitInv, Units
  <2>4. worker \in {"archive", "running"} => u # "size"
    BY <1>0, <2>1 DEF UnitInv
  <2>5. Told => Told'
    BY <1>00, <2>2
  <2> QED
    BY <1>0, <2>1, <2>2, <2>3, <2>4, <2>5 DEF UnitInv
<1>12. CASE SendFails
  BY <1>12, <1>0, <1>00, UnitFrame DEF SendFails, Broken
<1>13. CASE Watch
  <2>1. Told => Told'
    BY <1>13 DEF Watch, Told, IInv, TypeInv, WordInv, Cancelers
  <2> QED
    BY <1>13, <1>0, <2>1, UnitFrame DEF Watch
<1>14. CASE Kill
  <2>1. PICK n \in 0 .. Len(input) : input' = SubSeq(input, 1, n)
    BY <1>14 DEF Kill, Lose
  <2>2. /\ \A v : Has(input', v) => Has(input, v)
        /\ OneSize(input) => OneSize(input')
    BY <2>1, PrefixUnits DEF IInv, TypeInv, QueueInv
  <2>3. /\ UNCHANGED <<sender, got, canceler>> /\ exit' # "ok"
        /\ worker' = worker \/ worker' = "ended"
    BY <1>14 DEF Kill, Lose
  <2> QED
    BY <1>0, <2>2, <2>3 DEF UnitInv, Told, Has
<1>15. CASE Disconnect
  <2>1. PICK n \in 0 .. Len(input) : input' = SubSeq(input, 1, n)
    BY <1>15 DEF Disconnect, Lose
  <2>2. /\ \A v : Has(input', v) => Has(input, v)
        /\ OneSize(input) => OneSize(input')
    BY <2>1, PrefixUnits DEF IInv, TypeInv, QueueInv
  <2>3. /\ UNCHANGED <<sender, got, canceler>> /\ exit' # "ok"
        /\ worker' = worker \/ worker' = "ended"
    BY <1>15 DEF Disconnect, Lose
  <2> QED
    BY <1>0, <2>2, <2>3 DEF UnitInv, Told, Has
<1>16. CASE Cancel
  BY <1>16, <1>0, <1>00, UnitFrame DEF Cancel
<1>17. ASSUME NEW c \in Cancelers, WriteCancel(c) PROVE UnitInv'
  <2>1. Told'
    BY <1>17 DEF WriteCancel, Told, IInv, TypeInv, WordInv
  <2>2. UNCHANGED <<sender, got, worker, exit>>
    BY <1>17 DEF WriteCancel, Put, Broken
  <2>3. input' = input \/ input' = Append(input, "cancel")
    BY <1>17 DEF WriteCancel, Put, Broken
  <2>4. input \in Seq(Units) /\ "cancel" \in Units /\ OneSize(input)
    BY <1>0 DEF IInv, TypeInv, QueueInv, UnitInv, Units
  <2>5. /\ OneSize(Append(input, "cancel"))
        /\ Has(Append(input, "cancel"), "size") => Has(input, "size")
    BY <2>4, AppendUnits
  <2>6. OneSize(input') /\ (Has(input', "size") => Has(input, "size"))
    BY <2>3, <2>4, <2>5
  <2> QED
    BY <1>0, <2>1, <2>2, <2>6 DEF UnitInv
<1>18. ASSUME NEW c \in Cancelers, CloseInput(c) PROVE UnitInv'
  <2>1. Told => Told'
    BY <1>18 DEF CloseInput, Told, IInv, TypeInv, WordInv, Cancelers
  <2> QED
    BY <1>18, <1>0, <2>1, UnitFrame DEF CloseInput
<1>19. CASE ReadSize
  <2>1. /\ worker = "size" /\ (exit' = exit \/ exit' # "ok")
        /\ UNCHANGED <<sender, got, canceler>>
    BY <1>19 DEF ReadSize, Refuse
  <2>2. \/ input' = input /\ worker' = "ended"
        \/ /\ input # <<>> /\ input' = Tail(input)
           /\ \/ worker' = "ended"
              \/ worker' = "archive" /\ Head(input) = "size"
    BY <1>19 DEF ReadSize, Refuse
  <2>3. input # <<>> =>
            /\ Has(input, Head(input))
            /\ \A v : Has(Tail(input), v) => Has(input, v)
            /\ OneSize(input) =>
                    /\ OneSize(Tail(input))
                    /\ Head(input) = "size" => ~Has(Tail(input), "size")
    BY TailUnits DEF IInv, TypeInv, QueueInv
  <2>4. Told => Told'
    BY <1>00, <2>1
  <2> QED
    BY <1>0, <2>1, <2>2, <2>3, <2>4 DEF UnitInv
<1>20. CASE ReadArchive
  <2>1. /\ worker = "archive" /\ Len(got) < Blocks /\ input # <<>>
        /\ input' = Tail(input) /\ got' = Append(got, Head(input))
        /\ UNCHANGED <<sender, worker, exit, canceler>>
    BY <1>20 DEF ReadArchive
  <2>2. input \in Seq(Units) /\ got \in Seq(Units) /\ exit # "ok"
    BY <2>1, GotUnits DEF IInv, TypeInv, QueueInv, EndInv
  <2>3. /\ Head(input) \in Units /\ Has(input, Head(input))
        /\ \A v : Has(input', v) => Has(input, v)
        /\ OneSize(input) => OneSize(input')
    BY <2>1, <2>2, TailUnits
  <2>4. /\ Len(got') = Len(got) + 1 /\ Len(got) \in Nat
        /\ \A v : Has(got', v) => Has(got, v) \/ Head(input) = v
    BY <2>1, <2>2, <2>3, AppendUnits, LenProperties
  <2>5. Len(got') <= Blocks
    BY <2>1, <2>4
  <2>6. Told => Told'
    BY <1>00, <2>1
  <2> QED
    BY <1>0, <2>1, <2>2, <2>3, <2>4, <2>5, <2>6 DEF UnitInv
<1>21. CASE ReadFile
  <2>1. Len(Archive) = Blocks /\ ~Has(Archive, "cancel")
    BY DEF Archive, Has
  <2>2. got' = Archive /\ UNCHANGED <<input, sender, worker, exit, canceler>>
    BY <1>21 DEF ReadFile
  <2>3. ~Has(got', "cancel") /\ Len(got') = Blocks
    BY <2>1, <2>2
  <2>4. Told => Told'
    BY <1>00, <2>2
  <2> HIDE DEF Has
  <2> QED
    BY <1>0, <2>2, <2>3, <2>4 DEF UnitInv
<1>22. CASE Accept
  BY <1>22, <1>0 DEF Accept, WholeSize, UnitInv, Has, OneSize, Told
<1>23. CASE Control
  <2>1. UNCHANGED <<sender, got, canceler, worker, exit>>
    BY <1>23 DEF Control
  <2>2. input' = input \/ (input # <<>> /\ input' = Tail(input))
    BY <1>23 DEF Control
  <2>3. OneSize(input') /\ \A v : Has(input', v) => Has(input, v)
    BY <1>0, <2>2, TailUnits DEF IInv, TypeInv, QueueInv, UnitInv
  <2>4. Told => Told'
    BY <1>00, <2>1
  <2> QED
    BY <1>0, <2>1, <2>3, <2>4 DEF UnitInv
<1>24. CASE RefuseArchive
  BY <1>24, <1>0, <1>00, UnitFrame DEF RefuseArchive, Refuse
<1>25. CASE Emit
  BY <1>25, <1>0, <1>00, UnitFrame DEF Emit
<1>26. CASE WorkerEnds
  BY <1>26, <1>0, <1>00, UnitFrame DEF WorkerEnds
<1>27. CASE UNCHANGED vars
  BY <1>27, <1>0, <1>00, UnitFrame
<1> QED
  BY <1>1, <1>2, <1>3, <1>4, <1>5, <1>6, <1>7, <1>8, <1>9, <1>10, <1>11,
     <1>12, <1>13, <1>14, <1>15, <1>16, <1>17, <1>18, <1>19, <1>20,
     <1>21, <1>22, <1>23, <1>24, <1>25, <1>26, <1>27
     DEF Next, MainStep, WorkerReads

(* How it ends. *)
LEMMA EndKept == IInv /\ [Next]_vars => EndInv'
<1> SUFFICES ASSUME IInv, [Next]_vars PROVE EndInv'
  OBVIOUS
<1>0. /\ EndInv /\ exit \in {"none", "ok", "error", "killed"}
      /\ child \in {"none", "running", "exited"}
      /\ emitted \in Nat /\ saved \in Nat /\ output \in Seq(Messages)
  BY DEF IInv, TypeInv, WordInv, QueueInv
<1> USE <1>0 DEF EndInv, Intact
<1> USE DEF vars, main, link, senders, process, workers
<1>1. CASE Upload
  BY <1>1 DEF Upload, FailTo
<1>2. CASE Pack
  BY <1>2 DEF Pack, FailTo, After
<1>3. CASE Start
  <2>1. output = <<>> /\ emitted = 0 /\ saved = 0 /\ exit = "none"
    BY <1>3 DEF Start, IInv, PlaceInv, Early
  <2>2. Len(<<>>) = 0
    OBVIOUS
  <2> QED
    BY <1>3, <2>1, <2>2 DEF Start
<1>4. CASE StartFails
  BY <1>4 DEF StartFails, FailTo, After
<1>5. CASE Decode
  <2>1. Len(output') = Len(output) - 1 /\ Len(output) \in Nat \ {0}
    BY <1>5, HeadTailProperties, EmptySeq DEF Decode
  <2>2. UNCHANGED <<exit, child, worker, emitted, got>>
    BY <1>5 DEF Decode, GiveUp, FailTo
  <2>3. \/ pc' = "decode" /\ err' = err /\ saved' = saved + 1
        \/ pc' = "drain" /\ err' # {}
    BY <1>5 DEF Decode, GiveUp, FailTo
  <2> QED
    BY <2>1, <2>2, <2>3
<1>6. CASE Drain
  <2>1. err # {}
    BY <1>6 DEF Drain, IInv, CancelInv
  <2> QED
    BY <1>6, <2>1 DEF Drain
<1>7. CASE Closed
  BY <1>7 DEF Closed
<1>8. CASE Wait
  BY <1>8 DEF Wait
<1>9. CASE Join
  <2>1. pc = "join" /\ UNCHANGED <<exit, child, worker, emitted, saved, got,
                                  output>>
    BY <1>9 DEF Join
  <2>2. err' = Errors /\ SenderOver
    BY <1>9 DEF Join
  <2>3. child # "running" /\ output = <<>>
    BY <2>1 DEF IInv, PlaceInv
  <2>4. err' = {} => err = {} /\ exit = "ok" /\ saved # 0 /\ ~ctx
    BY <2>2 DEF Errors
  <2>5. Len(<<>>) = 0
    OBVIOUS
  <2>6. err' = {} => saved = emitted /\ saved > 0
    BY <2>3, <2>4, <2>5
  <2>7. err' = {} => Intact
    <3> SUFFICES ASSUME err' = {} PROVE Intact
      OBVIOUS
    <3>1. canceler["context"] = "none" /\ canceler["failure"] = "none"
      BY <2>4 DEF IInv, CancelInv
    <3>2. ~Told
      BY <3>1 DEF Told, Cancelers
    <3>3. ~Has(got, "cancel") /\ Len(got) = Blocks
      BY <2>4, <3>2 DEF IInv, UnitInv
    <3> QED
      BY <3>3, WholeArchive DEF IInv
  <2> QED
    BY <2>1, <2>4, <2>6, <2>7
<1>10. CASE Cleanup
  BY <1>10 DEF Cleanup, FailTo
<1>11. CASE Send
  BY <1>11 DEF Send, Put, Broken
<1>12. CASE SendFails
  BY <1>12 DEF SendFails, Broken
<1>13. CASE Watch
  BY <1>13 DEF Watch
<1>14. CASE Kill
  BY <1>14 DEF Kill, Lose
<1>15. CASE Disconnect
  BY <1>15 DEF Disconnect, Lose
<1>16. CASE Cancel
  BY <1>16 DEF Cancel
<1>17. ASSUME NEW c \in Cancelers, WriteCancel(c) PROVE EndInv'
  BY <1>17 DEF WriteCancel, Put, Broken
<1>18. ASSUME NEW c \in Cancelers, CloseInput(c) PROVE EndInv'
  BY <1>18 DEF CloseInput
<1>19. CASE ReadSize
  BY <1>19 DEF ReadSize, Refuse
<1>20. CASE ReadArchive
  BY <1>20 DEF ReadArchive
<1>21. CASE ReadFile
  BY <1>21 DEF ReadFile
<1>22. CASE Accept
  BY <1>22 DEF Accept, WholeSize
<1>23. CASE Control
  BY <1>23 DEF Control
<1>24. CASE RefuseArchive
  BY <1>24 DEF RefuseArchive, Refuse
<1>25. CASE Emit
  <2>1. Len(<<>>) = 0 /\ Len(<<"update">>) = 1 /\ Len(<<"garbage">>) = 1
    OBVIOUS
  <2>2. /\ UNCHANGED <<exit, child, worker, saved, got, pc, err>>
        /\ worker = "running" /\ emitted' = emitted + 1
    BY <1>25 DEF Emit
  <2>3. child = "exited" \/ (Len(output) = 0 /\ Len(output') = 1)
    BY <1>25, <2>1 DEF Emit
  <2>4. exit # "ok"
    BY <2>2
  <2>5. pc \in {"cleanup", "returned"} => err # {}
    BY <2>4
  <2>6. exit' # "ok" /\ (exit' # "none" => child' = "exited")
    BY <2>2, <2>4
  <2>7. ASSUME err' = {}, child' # "exited"
        PROVE  emitted' = saved' + Len(output')
    <3>1. err = {} /\ child # "exited" /\ saved' = saved
      BY <2>2, <2>7
    <3>2. Len(output) = 0 /\ Len(output') = 1
      BY <2>3, <3>1
    <3>3. emitted = saved + Len(output)
      BY <3>1
    <3> QED
      BY <2>2, <3>1, <3>2, <3>3
  <2> QED
    BY <2>2, <2>5, <2>6, <2>7
<1>26. CASE WorkerEnds
  BY <1>26 DEF WorkerEnds
<1>27. CASE UNCHANGED vars
  BY <1>27 DEF Intact
<1> QED
  BY <1>1, <1>2, <1>3, <1>4, <1>5, <1>6, <1>7, <1>8, <1>9, <1>10, <1>11,
     <1>12, <1>13, <1>14, <1>15, <1>16, <1>17, <1>18, <1>19, <1>20,
     <1>21, <1>22, <1>23, <1>24, <1>25, <1>26, <1>27
     DEF Next, MainStep, WorkerReads

(* Every step keeps the invariant. *)
LEMMA StepInv == IInv /\ [Next]_vars => IInv'
BY WordKept, QueueKept, PlaceKept, DirKept, CancelKept, UnitKept, EndKept
   DEF IInv, TypeInv

-----------------------------------------------------------------------------
(* The theorems.                                                           *)

(* Every reachable state satisfies the invariant: every unit in the pipe   *)
(* and in the archive has an author, every place of the controller has     *)
(* what it relies on, and every update is saved, on its way, or lost with  *)
(* an error.                                                               *)
THEOREM Invariance == Spec => []IInv
<1>1. Init => IInv
  BY InitInv
<1>2. IInv /\ [Next]_vars => IInv'
  BY StepInv
<1> QED
  BY <1>1, <1>2, PTL DEF Spec

(* A worker that runs with anything but the archive that was sent has been *)
(* told to stop, or is about to read that.                                 *)
THEOREM MixedBundlesStop == Spec => []IntactOrStopped
<1>1. IInv => IntactOrStopped
  <2> SUFFICES ASSUME IInv, worker = "running", ~Intact PROVE IntactOrStopped
    BY DEF IntactOrStopped
  <2>1. Told
    BY WholeArchive DEF IInv, UnitInv
  <2>2. PICK c \in Cancelers : canceler[c] \in {"close", "over"}
    BY <2>1 DEF Told
  <2>3. canceler[c] = "over" => Broken
    BY <2>2 DEF IInv, CancelInv, Broken
  <2> QED
    BY <2>2, <2>3 DEF IntactOrStopped
<1> QED
  BY <1>1, Invariance, PTL

(* The controller returns with the process reaped, its sender over and a   *)
(* directory that is left reported; without an error the whole archive ran *)
(* and every update was saved.                                             *)
THEOREM ReturnsAreClean == Spec => []ReturnsClean
<1>1. IInv => ReturnsClean
  BY DEF IInv, PlaceInv, DirInv, EndInv, ReturnsClean
<1> QED
  BY <1>1, Invariance, PTL
=============================================================================
