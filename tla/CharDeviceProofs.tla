-------------------------- MODULE CharDeviceProofs --------------------------
(***************************************************************************)
(* For every size of the queues and of the receiver's buffer: characters   *)
(* pass through the device in order and once each, in both directions.     *)
(***************************************************************************)
EXTENDS CharDevice, SequenceTheorems, TLAPS

InChar == 0 .. InChars - 1
OutChar == 0 .. OutChars - 1

CharTypes == /\ send_fifo \in Seq(OutChar) /\ rev_fifo \in Seq(InChar)
             /\ buf \in Seq(Byte)
             /\ val \in InChar \cup {None}
             /\ received \in InChar /\ read \in InChar
             /\ printed \in OutChar /\ shown \in OutChar

(* The character the driver has peeked stays at the front until it is       *)
(* popped, since only the sync that carries out this write pops.            *)
PeekedIsFront ==
    /\ rx \in {"peeked", "valid"} /\ val # None => rev_fifo # << >> /\ val = Head(rev_fifo)
    /\ rx = "valid" => val # None
    /\ spin = "pop" => rx = "valid"

(* A receiver only gives up its buffer empty, and a new one is started only *)
(* after the last one has been joined.                                      *)
OneReceiver ==
    /\ recv # "push" => buf = << >>
    /\ server \in {"top", "accept", "ended", "dead"} => recv = "none"
    /\ server = "pop" => send_fifo # << >>

IInv == CharTypes /\ PeekedIsFront /\ OneReceiver /\ InputExact /\ OutputExact

-----------------------------------------------------------------------------
(* Numbering stays below its modulus.                                       *)
LEMMA SuccTyped ==
    ASSUME NEW n \in Nat \ {0}, NEW c \in 0 .. n - 1
    PROVE  Succ(c, n) \in 0 .. n - 1
  BY DEF Succ

LEMMA CharCounts == InChars \in Nat \ {0} /\ OutChars \in Nat \ {0} /\ None \notin InChar
  BY CharSizesAssumption DEF InChars, OutChars, None, InChar

(* What Append and Tail do, element by element.                             *)
LEMMA AppendFacts ==
    ASSUME NEW S, NEW q \in Seq(S), NEW e \in S
    PROVE  /\ Append(q, e) \in Seq(S) /\ Append(q, e) # << >>
           /\ Len(q) \in Nat /\ (q = << >> <=> Len(q) = 0)
           /\ Len(Append(q, e)) = Len(q) + 1
           /\ \A k \in 1 .. Len(q) : Append(q, e)[k] = q[k]
           /\ Append(q, e)[Len(q) + 1] = e
  BY AppendProperties, EmptySeq, LenProperties
LEMMA TailFacts ==
    ASSUME NEW S, NEW q \in Seq(S), q # << >>
    PROVE  /\ Len(q) \in Nat \ {0}
           /\ Head(q) = q[1] /\ q[1] \in S
           /\ Tail(q) \in Seq(S) /\ Len(Tail(q)) = Len(q) - 1
           /\ (Tail(q) = << >> <=> Len(q) = 1)
           /\ \A k \in 1 .. Len(q) - 1 : Tail(q)[k] = q[k + 1]
           /\ Tail(q) # << >> => Head(Tail(q)) = q[2]
  <1>1. Len(q) \in Nat \ {0} /\ Head(q) = q[1] /\ q[1] \in S
    BY HeadTailProperties, EmptySeq, LenProperties
  <1>2. Tail(q) \in Seq(S) /\ Len(Tail(q)) = Len(q) - 1
    BY HeadTailProperties
  <1>3. Tail(q) = << >> <=> Len(q) = 1
    <2>1. Tail(q) = << >> => Len(Tail(q)) = 0
      BY EmptySeq
    <2>2. Tail(q) # << >> => Len(Tail(q)) \in Nat \ {0}
      BY <1>2, EmptySeq
    <2>3. QED
      BY <1>1, <1>2, <2>1, <2>2
  <1>4. \A k \in 1 .. Len(q) - 1 : Tail(q)[k] = q[k + 1]
    OBVIOUS
  <1>5. Tail(q) # << >> => Head(Tail(q)) = q[2]
    <2>1. HAVE Tail(q) # << >>
    <2>2. Head(Tail(q)) = Tail(q)[1]
      BY <1>2, <2>1, HeadTailProperties
    <2>3. QED
      BY <1>1, <1>3, <1>4, <2>1, <2>2
  <1>6. QED
    BY <1>1, <1>2, <1>3, <1>4, <1>5

(* Appending the next character to a run lengthens it.                      *)
LEMMA AppendRun ==
    ASSUME NEW n \in Nat \ {0}, NEW q \in Seq(0 .. n - 1),
           NEW c \in 0 .. n - 1, NEW d \in 0 .. n - 1, Consecutive(q, c, d, n)
    PROVE  Consecutive(Append(q, d), c, Succ(d, n), n)
  <1> DEFINE a == Append(q, d)
  <1>1. /\ Len(a) = Len(q) + 1 /\ a # << >> /\ a[Len(q) + 1] = d
        /\ \A k \in 1 .. Len(q) : a[k] = q[k]
        /\ Len(q) \in Nat
        /\ q = << >> <=> Len(q) = 0
    BY AppendFacts
  <1> HIDE DEF a
  <1>2. CASE Len(q) = 0
    <2>1. c = d
      BY <1>1, <1>2 DEF Consecutive
    <2>2. Len(a) = 1 /\ a[1] = d /\ 1 .. Len(a) - 1 = {}
      BY <1>1, <1>2
    <2>3. QED
      BY <1>1, <2>1, <2>2 DEF Consecutive, a
  <1>3. CASE Len(q) # 0
    <2>1. q[1] = c /\ Succ(q[Len(q)], n) = d /\ \A k \in 1 .. Len(q) - 1 : q[k + 1] = Succ(q[k], n)
      BY <1>1, <1>3 DEF Consecutive
    <2>2. a[1] = c /\ a[Len(q)] = q[Len(q)]
      BY <1>1, <1>3, <2>1
    <2>3. \A k \in 1 .. Len(a) - 1 : a[k + 1] = Succ(a[k], n)
      <3>1. TAKE k \in 1 .. Len(a) - 1
      <3>2. CASE k = Len(q)
        BY <1>1, <2>1, <2>2, <3>2
      <3>3. CASE k # Len(q)
        <4>1. k \in 1 .. Len(q) /\ k + 1 \in 1 .. Len(q) /\ k \in 1 .. Len(q) - 1
          BY <1>1, <3>3
        <4>2. QED
          BY <1>1, <2>1, <4>1
      <3>4. QED
        BY <3>2, <3>3
    <2>4. QED
      BY <1>1, <2>2, <2>3, SMTT(30) DEF Consecutive
  <1>4. QED
    BY <1>2, <1>3 DEF a

(* Taking the first character off a run shortens it.                        *)
LEMMA TailRun ==
    ASSUME NEW n \in Nat \ {0}, NEW q \in Seq(0 .. n - 1), q # << >>,
           NEW c \in 0 .. n - 1, NEW d \in 0 .. n - 1, Consecutive(q, c, d, n)
    PROVE  Consecutive(Tail(q), Succ(c, n), d, n) /\ Head(q) = c
  <1> DEFINE t == Tail(q)
  <1>1. /\ Len(q) \in Nat \ {0} /\ Head(q) = q[1] /\ Len(t) = Len(q) - 1
        /\ t = << >> <=> Len(q) = 1
        /\ \A k \in 1 .. Len(q) - 1 : t[k] = q[k + 1]
    BY TailFacts
  <1>2. /\ q[1] = c /\ Succ(q[Len(q)], n) = d
        /\ \A k \in 1 .. Len(q) - 1 : q[k + 1] = Succ(q[k], n)
    BY DEF Consecutive
  <1> HIDE DEF t
  <1>3. CASE Len(q) = 1
    BY <1>1, <1>2, <1>3 DEF Consecutive, t
  <1>4. CASE Len(q) # 1
    <2>1. t[1] = Succ(c, n) /\ t[Len(t)] = q[Len(q)]
      <3>1. 1 \in 1 .. Len(q) - 1 /\ Len(q) - 1 \in 1 .. Len(q) - 1 /\ (Len(q) - 1) + 1 = Len(q)
        BY <1>1, <1>4
      <3>2. t[1] = q[1 + 1] /\ t[Len(q) - 1] = q[(Len(q) - 1) + 1]
        BY <1>1, <3>1
      <3>3. q[1 + 1] = Succ(q[1], n)
        BY <1>2, <3>1
      <3>4. QED
        BY <1>1, <1>2, <3>1, <3>2, <3>3
    <2>2. \A k \in 1 .. Len(t) - 1 : t[k + 1] = Succ(t[k], n)
      <3>1. TAKE k \in 1 .. Len(t) - 1
      <3>2. k \in 1 .. Len(q) - 1 /\ k + 1 \in 1 .. Len(q) - 1
        BY <1>1, <1>4
      <3>3. t[k] = q[k + 1] /\ t[k + 1] = q[(k + 1) + 1]
        BY <1>1, <3>2
      <3>4. q[(k + 1) + 1] = Succ(q[k + 1], n)
        BY <1>2, <3>2
      <3>5. QED
        BY <3>3, <3>4
    <2>3. QED
      BY <1>1, <1>2, <1>4, <2>1, <2>2 DEF Consecutive, t
  <1>5. QED
    BY <1>3, <1>4

(* The same for the bytes the receiver has not pushed.                      *)
LEMMA TailBytes ==
    ASSUME NEW q \in Seq(Byte), q # << >>, NEW c, NEW d, Numbered(q, c, d)
    PROVE  /\ Head(q).num = c
           /\ (IF Tail(q) = << >> THEN d ELSE Head(Tail(q)).num) = After(Head(q))
           /\ Numbered(Tail(q), After(Head(q)), d)
  <1> DEFINE t == Tail(q)
  <1>1. /\ Len(q) \in Nat \ {0} /\ Head(q) = q[1] /\ Len(t) = Len(q) - 1
        /\ t = << >> <=> Len(q) = 1
        /\ \A k \in 1 .. Len(q) - 1 : t[k] = q[k + 1]
        /\ t # << >> => Head(t) = q[2]
    BY TailFacts
  <1>2. /\ q[1].num = c /\ After(q[Len(q)]) = d
        /\ \A k \in 1 .. Len(q) - 1 : q[k + 1].num = After(q[k])
    BY DEF Numbered
  <1> HIDE DEF t
  <1>3. CASE Len(q) = 1
    BY <1>1, <1>2, <1>3 DEF Numbered, t
  <1>4. CASE Len(q) # 1
    <2>1. t[1].num = After(q[1]) /\ t[Len(t)] = q[Len(q)] /\ q[2].num = After(q[1])
      BY <1>1, <1>2, <1>4
    <2>2. \A k \in 1 .. Len(t) - 1 : t[k + 1].num = After(t[k])
      BY <1>1, <1>2, <1>4
    <2>3. QED
      BY <1>1, <1>2, <1>4, <2>1, <2>2 DEF Numbered, t
  <1>5. QED
    BY <1>3, <1>4

LEMMA AfterTyped ==
    ASSUME NEW b \in Byte
    PROVE  After(b) \in InChar /\ b.num \in InChar /\ b.cr \in BOOLEAN
  BY SuccTyped, CharCounts DEF After, Byte, InChar

-----------------------------------------------------------------------------
LEMMA InitIInv == Init => IInv
  <1> SUFFICES ASSUME Init PROVE IInv
    OBVIOUS
  <1>1. CharTypes
    BY CharSizesAssumption, EmptySeq DEF Init, CharTypes, InChar, OutChar, InChars, OutChars
  <1>2. InputExact
    BY DEF Init, InputExact, Consecutive, Numbered
  <1>3. OutputExact
    BY DEF Init, OutputExact, Consecutive
  <1>4. QED
    BY <1>1, <1>2, <1>3 DEF Init, IInv, PeekedIsFront, OneReceiver

(* The parts of the state the two directions depend on.                     *)
Kept == UNCHANGED <<send_fifo, rev_fifo, buf, received, read, printed, shown>>

(* A step that moves no character leaves both directions as they are.       *)
LEMMA KeptExact ==
    ASSUME IInv, Kept, server' = "pop" <=> server = "pop",
           spin' = "pop" => rev_fifo # << >> /\ val' = Head(rev_fifo)
    PROVE  InputExact' /\ OutputExact'
  BY DEF IInv, Kept, InputExact, OutputExact
LEMMA PeekIInv ==
    ASSUME IInv, Peek \/ PeekFlushed \/ PeekRetired \/ Getc
    PROVE  IInv'
  <1>1. Kept /\ UNCHANGED <<server, recv>>
    BY DEF Kept, Peek, PeekFlushed, PeekRetired, Getc, flags, history
  <1>2. rev_fifo # << >> => Head(rev_fifo) \in InChar
    BY HeadTailProperties DEF IInv, CharTypes
  <1>3. val' \in InChar \cup {None}
    BY <1>2 DEF IInv, CharTypes, Peek, PeekFlushed, PeekRetired, Getc
  <1>4. PeekedIsFront'
    BY DEF IInv, PeekedIsFront, Peek, PeekFlushed, PeekRetired, Getc, Running
  <1>5. spin' = "pop" => rev_fifo # << >> /\ val' = Head(rev_fifo)
    BY <1>4, <1>1 DEF PeekedIsFront, Kept
  <1>6. InputExact' /\ OutputExact'
    BY <1>1, <1>5, KeptExact
  <1>7. QED
    BY <1>1, <1>3, <1>4, <1>6 DEF IInv, CharTypes, OneReceiver, Kept

(* The steps of the threads that move no character.                         *)
LEMMA IdleIInv ==
    ASSUME IInv,
           \/ Putc \/ Quit \/ RecvTest \/ ReceiveThrows \/ BufDone \/ Leave
           \/ ServerTop \/ Accept \/ SendThrows \/ NothingToSend \/ ServeTest \/ Join
    PROVE  IInv'
  <1>1. Kept /\ UNCHANGED <<rx, val>> /\ (spin' = "pop" => spin = "pop")
    BY DEF Kept, Putc, Quit, RecvTest, ReceiveThrows, BufDone, ServerTop, Accept, SendThrows,
           NothingToSend, ServeTest, Join, Leave, flags, history, guest, KeepUnsent, Running
  <1>2. server' = "pop" <=> server = "pop"
    BY DEF Putc, Quit, RecvTest, ReceiveThrows, BufDone, ServerTop, Accept, SendThrows,
           NothingToSend, ServeTest, Join, Leave, flags
  <1>3. recv' # "push" => buf = << >>
    BY DEF IInv, OneReceiver, Putc, Quit, RecvTest, ReceiveThrows, BufDone, ServerTop, Accept,
           SendThrows, NothingToSend, ServeTest, Join, Leave, flags, RecvExit
  <1>4. server' \in {"top", "accept", "ended", "dead"} => recv' = "none"
    BY DEF IInv, OneReceiver, Putc, Quit, RecvTest, ReceiveThrows, BufDone, ServerTop, Accept,
           SendThrows, NothingToSend, ServeTest, Join, Leave, flags, RecvExit
  <1>5. PeekedIsFront' /\ (spin' = "pop" => rev_fifo # << >> /\ val' = Head(rev_fifo))
    BY <1>1 DEF IInv, PeekedIsFront, Kept
  <1>6. InputExact' /\ OutputExact'
    BY <1>1, <1>2, <1>5, KeptExact
  <1>7. QED
    BY <1>1, <1>2, <1>3, <1>4, <1>5, <1>6 DEF IInv, CharTypes, OneReceiver, Kept

(* getc pops the character it has peeked, which is the oldest unread.       *)
LEMMA SyncPopIInv ==
    ASSUME IInv, SyncPop
    PROVE  IInv'
  <1> DEFINE next == IF buf = << >> THEN received ELSE Head(buf).num
  <1>1. /\ rev_fifo' = Tail(rev_fifo) /\ read' = Succ(val, InChars)
        /\ rx' = "idle" /\ spin' = "no" /\ val' = None
        /\ UNCHANGED <<send_fifo, server, recv, buf, received, printed, shown>>
    BY DEF SyncPop, flags
  <1>2. rev_fifo \in Seq(InChar) /\ rev_fifo # << >> /\ val = Head(rev_fifo)
    BY DEF IInv, CharTypes, InputExact, SyncPop
  <1>3. read \in InChar /\ InChars \in Nat \ {0} /\ next \in InChar
    BY CharCounts, AfterTyped, HeadTailProperties DEF IInv, CharTypes
  <1>4. Consecutive(rev_fifo, read, next, InChars) /\ Numbered(buf, next, received)
    BY DEF IInv, InputExact
  <1> HIDE DEF next
  <1>5. Consecutive(Tail(rev_fifo), Succ(read, InChars), next, InChars) /\ val = read
    BY <1>2, <1>3, <1>4, TailRun DEF InChar
  <1>6. InputExact'
    BY <1>1, <1>4, <1>5 DEF InputExact, next
  <1>7. CharTypes'
    BY <1>1, <1>2, <1>3, <1>5, HeadTailProperties, SuccTyped DEF IInv, CharTypes, InChar
  <1>8. OutputExact' /\ PeekedIsFront' /\ OneReceiver'
    BY <1>1 DEF IInv, OutputExact, PeekedIsFront, OneReceiver
  <1>9. QED
    BY <1>6, <1>7, <1>8 DEF IInv

(* The receiver pushes its next character, or drops a carriage return.      *)
LEMMA RevPushIInv ==
    ASSUME IInv, RevPush
    PROVE  IInv'
  <1> DEFINE h == Head(buf)
             next == IF buf = << >> THEN received ELSE Head(buf).num
             after == IF Tail(buf) = << >> THEN received ELSE Head(Tail(buf)).num
  <1>1. /\ buf # << >> /\ recv = "push"
        /\ rev_fifo' = IF h.cr THEN rev_fifo ELSE Append(rev_fifo, h.num)
        /\ buf' = Tail(buf)
        /\ UNCHANGED <<send_fifo, server, recv, received, read, printed, shown, rx, val, spin>>
    BY DEF RevPush, ReceiverSpins, push, flags, guest, history
  <1>2. buf \in Seq(Byte) /\ h \in Byte /\ Tail(buf) \in Seq(Byte)
    BY <1>1, HeadTailProperties DEF IInv, CharTypes
  <1>3. h.num \in InChar /\ h.cr \in BOOLEAN /\ next = h.num
    BY <1>1, <1>2, AfterTyped
  <1>4. Consecutive(rev_fifo, read, next, InChars) /\ Numbered(buf, next, received)
    BY DEF IInv, InputExact
  <1>5. after = After(h) /\ Numbered(Tail(buf), After(h), received)
    BY <1>1, <1>2, <1>4, TailBytes
  <1>6. read \in InChar /\ rev_fifo \in Seq(InChar) /\ InChars \in Nat \ {0}
    BY CharCounts DEF IInv, CharTypes
  <1> HIDE DEF h, next, after
  <1>7. Consecutive(rev_fifo', read, After(h), InChars)
    <2>1. CASE h.cr
      BY <1>1, <1>3, <1>4, <2>1 DEF After
    <2>2. CASE ~h.cr
      <3>1. Consecutive(Append(rev_fifo, h.num), read, Succ(h.num, InChars), InChars)
        BY <1>3, <1>4, <1>6, AppendRun DEF InChar
      <3>2. QED
        BY <1>1, <2>2, <3>1 DEF After
    <2>3. QED
      BY <2>1, <2>2
  <1>8. rev_fifo' \in Seq(InChar) /\ (rev_fifo # << >> => rev_fifo' # << >> /\ Head(rev_fifo') = Head(rev_fifo))
    <2>1. CASE h.cr
      BY <1>1, <1>6, <2>1
    <2>2. CASE ~h.cr
      BY <1>1, <1>3, <1>6, <2>2, AppendFacts
    <2>3. QED
      BY <2>1, <2>2
  <1>9. InputExact'
    <2>1. (IF buf' = << >> THEN received' ELSE Head(buf').num) = After(h)
      BY <1>1, <1>5 DEF after
    <2>2. spin' = "pop" => rev_fifo' # << >> /\ val' = Head(rev_fifo')
      BY <1>1, <1>8 DEF IInv, InputExact
    <2>3. QED
      BY <1>1, <1>5, <1>7, <2>1, <2>2 DEF InputExact
  <1>10. CharTypes'
    BY <1>1, <1>2, <1>8 DEF IInv, CharTypes
  <1>11. OutputExact' /\ PeekedIsFront' /\ OneReceiver'
    BY <1>1, <1>8 DEF IInv, OutputExact, PeekedIsFront, OneReceiver
  <1>12. QED
    BY <1>9, <1>10, <1>11 DEF IInv

(* receive numbers what it returns after what was received before.          *)
LEMMA ReceiveIInv ==
    ASSUME IInv, Receive
    PROVE  IInv'
  <1>0. PICK n \in 1 .. BufSize : \E s \in [1 .. n -> Byte] :
            /\ Numbered(s, received, After(s[n]))
            /\ buf' = s /\ received' = After(s[n])
    BY DEF Receive
  <1>1. PICK s \in [1 .. n -> Byte] :
            /\ Numbered(s, received, After(s[n]))
            /\ buf' = s /\ received' = After(s[n])
    BY <1>0
  <1>2. /\ UNCHANGED <<send_fifo, rev_fifo, server, read, printed, shown, rx, val, spin>>
        /\ recv = "receive" /\ recv' = "push"
    BY DEF Receive, flags, guest
  <1>3. buf = << >> /\ Consecutive(rev_fifo, read, received, InChars)
    BY <1>2 DEF IInv, OneReceiver, InputExact
  <1>4. n \in Nat \ {0} /\ s \in Seq(Byte) /\ Len(s) = n /\ s # << >> /\ Head(s) = s[1] /\ s[n] \in Byte
    BY <1>1, CharSizesAssumption
  <1>5. Head(s).num = received
    BY <1>1, <1>4 DEF Numbered
  <1>6. InputExact'
    <2>1. (IF buf' = << >> THEN received' ELSE Head(buf').num) = received
      BY <1>1, <1>4, <1>5
    <2>2. spin' = "pop" => rev_fifo' # << >> /\ val' = Head(rev_fifo')
      BY <1>2 DEF IInv, InputExact
    <2>3. QED
      BY <1>1, <1>2, <1>3, <2>1, <2>2 DEF InputExact
  <1>7. CharTypes'
    BY <1>1, <1>2, <1>4, AfterTyped DEF IInv, CharTypes
  <1>8. OutputExact' /\ PeekedIsFront' /\ OneReceiver'
    BY <1>1, <1>2 DEF IInv, OutputExact, PeekedIsFront, OneReceiver
  <1>9. QED
    BY <1>6, <1>7, <1>8 DEF IInv

-----------------------------------------------------------------------------
(* A printed character goes to the end of the queue, also while the server  *)
(* thread is between the send of the front and its pop.                     *)
LEMMA SyncPushIInv ==
    ASSUME IInv, SyncPush
    PROVE  IInv'
  <1> DEFINE unsent == IF server = "pop" THEN Tail(send_fifo) ELSE send_fifo
  <1>1. /\ send_fifo' = Append(send_fifo, printed) /\ printed' = Succ(printed, OutChars)
        /\ spin' = "no"
        /\ UNCHANGED <<rev_fifo, server, recv, buf, rx, val, received, read, shown>>
    BY DEF SyncPush, push, flags
  <1>2. /\ send_fifo \in Seq(OutChar) /\ printed \in OutChar /\ shown \in OutChar
        /\ OutChars \in Nat \ {0}
    BY CharCounts DEF IInv, CharTypes
  <1>3. server = "pop" => send_fifo # << >>
    BY DEF IInv, OneReceiver
  <1>4. unsent \in Seq(OutChar) /\ Consecutive(unsent, shown, printed, OutChars)
    BY <1>2, <1>3, HeadTailProperties DEF IInv, OutputExact
  <1>5. send_fifo' \in Seq(OutChar) /\ send_fifo' # << >>
    BY <1>1, <1>2, AppendFacts
  <1>6. server = "pop" => Tail(send_fifo') = Append(Tail(send_fifo), printed)
    BY <1>1, <1>2, <1>3
  <1>7. Consecutive(Append(unsent, printed), shown, Succ(printed, OutChars), OutChars)
    BY <1>2, <1>4, AppendRun DEF OutChar
  <1>8. OutputExact'
    BY <1>1, <1>6, <1>7 DEF OutputExact
  <1>9. CharTypes'
    BY <1>1, <1>2, <1>5, SuccTyped DEF IInv, CharTypes, OutChar
  <1>10. InputExact' /\ PeekedIsFront' /\ OneReceiver'
    BY <1>1, <1>5 DEF IInv, InputExact, PeekedIsFront, OneReceiver
  <1>11. QED
    BY <1>8, <1>9, <1>10 DEF IInv

(* The server thread sends the front and pops it in two steps.              *)
LEMMA SendIInv ==
    ASSUME IInv, SendOk \/ SendPop
    PROVE  IInv'
  <1>1. /\ UNCHANGED <<rev_fifo, recv, buf, rx, val, spin, received, read, printed>>
        /\ send_fifo # << >>
    BY DEF SendOk, SendPop, flags, guest, history
  <1>2. /\ send_fifo \in Seq(OutChar) /\ printed \in OutChar /\ shown \in OutChar
        /\ OutChars \in Nat \ {0}
    BY CharCounts DEF IInv, CharTypes
  <1>3. InputExact' /\ PeekedIsFront'
    BY <1>1 DEF IInv, InputExact, PeekedIsFront
  <1>4. Tail(send_fifo) \in Seq(OutChar)
    BY <1>1, <1>2, HeadTailProperties
  <1>5. CASE SendOk
    <2>1. /\ UNCHANGED send_fifo /\ shown' = Succ(Head(send_fifo), OutChars) /\ server' = "pop"
          /\ server = "serve"
      BY <1>5 DEF SendOk
    <2>2. Consecutive(send_fifo, shown, printed, OutChars)
      BY <2>1 DEF IInv, OutputExact
    <2>3. /\ Consecutive(Tail(send_fifo), Succ(shown, OutChars), printed, OutChars)
          /\ Head(send_fifo) = shown
      BY <1>1, <1>2, <2>2, TailRun DEF OutChar
    <2>4. OutputExact'
      BY <1>1, <2>1, <2>3 DEF OutputExact
    <2>5. CharTypes'
      BY <1>1, <1>2, <2>1, <2>3, SuccTyped DEF IInv, CharTypes, OutChar
    <2>6. OneReceiver'
      BY <1>1, <2>1 DEF IInv, OneReceiver
    <2>7. QED
      BY <1>3, <2>4, <2>5, <2>6 DEF IInv
  <1>6. CASE SendPop
    <2>1. send_fifo' = Tail(send_fifo) /\ UNCHANGED shown /\ server = "pop" /\ server' = "test"
      BY <1>6 DEF SendPop, history
    <2>2. QED
      BY <1>1, <1>3, <1>4, <2>1 DEF IInv, OutputExact, CharTypes, OneReceiver
  <1>7. QED
    BY <1>5, <1>6

-----------------------------------------------------------------------------
LEMMA NextIInv == IInv /\ [Next]_vars => IInv'
  <1> SUFFICES ASSUME IInv, [Next]_vars PROVE IInv'
    OBVIOUS
  <1>1. CASE Guest
    BY <1>1, PeekIInv, IdleIInv, SyncPopIInv, SyncPushIInv DEF Guest
  <1>2. CASE Receiver
    BY <1>2, IdleIInv, ReceiveIInv, RevPushIInv DEF Receiver
  <1>3. CASE Serve
    BY <1>3, IdleIInv, SendIInv DEF Serve
  <1>4. CASE Accept \/ Leave
    BY <1>4, IdleIInv
  <1>5. CASE UNCHANGED vars
    BY <1>5 DEF vars, guest, history, IInv, CharTypes, PeekedIsFront, OneReceiver, InputExact,
                OutputExact
  <1>6. QED
    BY <1>1, <1>2, <1>3, <1>4, <1>5 DEF Next

(* charfifo::read and ::filter, the receiver thread and rev_fifo: for every *)
(* size of the queue and of the buffer the guest gets what clients send,    *)
(* in order and once each, and the pop of getc finds what was peeked.       *)
THEOREM InputSafe == Spec => []InputExact
  <1>1. IInv => InputExact
    BY DEF IInv
  <1>2. QED
    BY <1>1, InitIInv, NextIInv, PTL DEF Spec

(* charfifo::filter, send_fifo and the server thread: for every size what   *)
(* the guest prints is sent in order and once each.                         *)
THEOREM OutputSafe == Spec => []OutputExact
  <1>1. IInv => OutputExact
    BY DEF IInv
  <1>2. QED
    BY <1>1, InitIInv, NextIInv, PTL DEF Spec
=============================================================================
