---------------------------- MODULE CharDevice ----------------------------
(***************************************************************************)
(* The character device: the charfifo CSR, which the simulated program     *)
(* reads and writes, the server thread, which owns the connection and      *)
(* sends, and one receiver thread per connection (main.cpp).  Two lock-    *)
(* free queues join them: send_fifo from the core to the server thread,    *)
(* rev_fifo from the receiver to the core.                                 *)
(*                                                                         *)
(* The guest's driver reads in two steps: it peeks at the front, and if    *)
(* that is valid it writes the bit that pops it.  A CSR instruction reads  *)
(* when it executes and may be flushed and executed again; what it writes  *)
(* takes effect in csr_file.sync, after it has retired.  That sync spins   *)
(* while the queue is full or empty, and the core with it.                 *)
(*                                                                         *)
(* Characters are numbered in the order in which they are received and     *)
(* printed, modulo more than can be under way.  The client is external: it *)
(* closes its connection in order or resets it, and shutting down a        *)
(* connection that was reset may throw.                                    *)
(***************************************************************************)
EXTENDS Integers, Sequences

CONSTANTS FifoSize,   \* the capacity of the two queues, 1024
          BufSize     \* the size of the receiver's buffer, 1024

ASSUME CharSizesAssumption == FifoSize \in Nat \ {0} /\ BufSize \in Nat \ {0}

VARIABLES
    send_fifo, rev_fifo,     \* charfifo_send_fifo, charfifo_rev_fifo
    program_stop,
    recv_stop, recv_stopped, \* charfifo_recv_thread_stop, _stopped
    thread_stopped,          \* charfifo_thread_stopped
    server,                  \* where the server thread is
    recv, buf,               \* where the receiver is; what it has not pushed yet
    client,                  \* the connection: none, open, closed, reset
    rx, val,                 \* the driver's getc, and what it peeked
    spin,                    \* the write csr_file.sync is carrying out
    received, read,          \* history: characters received from clients, got by the guest
    printed, shown           \* history: characters printed by the guest, sent to clients

flags == <<program_stop, recv_stop, recv_stopped, thread_stopped>>
guest == <<rx, val, spin>>
history == <<received, read, printed, shown>>
vars == <<send_fifo, rev_fifo, flags, server, recv, buf, client, guest, history>>

InChars == FifoSize + BufSize + 1
OutChars == FifoSize + 1
None == InChars     \* no character

(* The number after c, out of n.  A byte of a client is a character with    *)
(* its number, or a carriage return with the number of the next character.  *)
Succ(c, n) == IF c + 1 = n THEN 0 ELSE c + 1
Byte == [num : 0 .. InChars - 1, cr : BOOLEAN]
After(b) == IF b.cr THEN b.num ELSE Succ(b.num, InChars)

(* The characters of q are numbered from c up to, but without, d; and those *)
(* of the bytes q.                                                          *)
Consecutive(q, c, d, n) ==
    IF q = << >> THEN c = d
    ELSE /\ q[1] = c /\ Succ(q[Len(q)], n) = d
         /\ \A k \in 1 .. Len(q) - 1 : q[k + 1] = Succ(q[k], n)
Numbered(q, c, d) ==
    IF q = << >> THEN c = d
    ELSE /\ q[1].num = c /\ After(q[Len(q)]) = d
         /\ \A k \in 1 .. Len(q) - 1 : q[k + 1].num = After(q[k])

(* spsc_queue: a push into a full queue fails and changes nothing.          *)
Full(q) == Len(q) = FifoSize
push(q, c) == IF Full(q) THEN q ELSE Append(q, c)

Init == /\ send_fifo = << >> /\ rev_fifo = << >>
        /\ program_stop = FALSE /\ recv_stop = FALSE /\ recv_stopped = FALSE
        /\ thread_stopped = FALSE
        /\ server = "top"
        /\ recv = "none" /\ buf = << >>
        /\ client = "none"
        /\ rx = "idle" /\ val = None /\ spin = "no"
        /\ received = 0 /\ read = 0 /\ printed = 0 /\ shown = 0

-----------------------------------------------------------------------------
(* The guest.  It runs while sync does not spin and the program goes on.    *)
Running == spin = "no" /\ ~program_stop

(* charfifo::read, when the csr unit executes the driver's read; a value    *)
(* that is not valid is None here.                                          *)
Peek ==
    /\ Running /\ rx = "idle"
    /\ val' = IF rev_fifo = << >> THEN None ELSE Head(rev_fifo)
    /\ rx' = "peeked"
    /\ UNCHANGED <<send_fifo, rev_fifo, flags, server, recv, buf, client, spin, history>>

(* The read is flushed before it retires, and executed again.               *)
PeekFlushed ==
    /\ Running /\ rx = "peeked"
    /\ rx' = "idle" /\ val' = None
    /\ UNCHANGED <<send_fifo, rev_fifo, flags, server, recv, buf, client, spin, history>>
PeekRetired ==
    /\ Running /\ rx = "peeked"
    /\ rx' = IF val = None THEN "idle" ELSE "valid"
    /\ UNCHANGED <<send_fifo, rev_fifo, flags, server, recv, buf, client, val, spin, history>>

(* The writes of getc and putc retire.                                      *)
Getc ==
    /\ Running /\ rx = "valid"
    /\ spin' = "pop"
    /\ UNCHANGED <<send_fifo, rev_fifo, flags, server, recv, buf, client, rx, val, history>>
Putc ==
    /\ Running
    /\ spin' = "push"
    /\ UNCHANGED <<send_fifo, rev_fifo, flags, server, recv, buf, client, rx, val, history>>

(* charfifo::filter, from csr_file.sync.  getc returns what it had peeked.  *)
SyncPop ==
    /\ spin = "pop" /\ rev_fifo # << >>
    /\ rev_fifo' = Tail(rev_fifo)
    /\ rx' = "idle" /\ val' = None /\ spin' = "no"
    /\ read' = Succ(val, InChars)
    /\ UNCHANGED <<send_fifo, flags, server, recv, buf, client, received, printed, shown>>
SyncPush ==
    /\ spin = "push" /\ ~Full(send_fifo)
    /\ send_fifo' = push(send_fifo, printed)
    /\ spin' = "no" /\ printed' = Succ(printed, OutChars)
    /\ UNCHANGED <<rev_fifo, flags, server, recv, buf, client, rx, val, received, read, shown>>

(* The debugger's quit command ends the main loop, never inside sync.       *)
Quit ==
    /\ Running
    /\ program_stop' = TRUE
    /\ UNCHANGED <<send_fifo, rev_fifo, recv_stop, recv_stopped, thread_stopped, server,
                   recv, buf, client, guest, history>>

-----------------------------------------------------------------------------
(* The receiver thread.                                                     *)
RecvExit == recv' = "done" /\ recv_stopped' = TRUE
RecvTest ==
    /\ recv = "test"
    /\ IF recv_stop THEN RecvExit ELSE recv' = "receive" /\ UNCHANGED recv_stopped
    /\ UNCHANGED <<send_fifo, rev_fifo, program_stop, recv_stop, thread_stopped, server,
                   buf, client, guest, history>>

(* receive returns some characters, some of them carriage returns, or       *)
(* throws when the client is gone.                                          *)
Receive ==
    /\ recv = "receive" /\ client \in {"open", "closed"}
    /\ \E n \in 1 .. BufSize : \E s \in [1 .. n -> Byte] :
          /\ Numbered(s, received, After(s[n]))
          /\ buf' = s
          /\ received' = After(s[n])
    /\ recv' = "push"
    /\ UNCHANGED <<send_fifo, rev_fifo, flags, server, client, guest, read, printed, shown>>
ReceiveThrows ==
    /\ recv = "receive" /\ client \in {"closed", "reset"}
    /\ RecvExit
    /\ UNCHANGED <<send_fifo, rev_fifo, program_stop, recv_stop, thread_stopped, server,
                   buf, client, guest, history>>

(* Carriage returns are dropped; the push of another character spins while  *)
(* rev_fifo is full, whatever the flags say.                                *)
ReceiverNeverSpins == FALSE                      \* mutant of ReceiverSpins
ReceiverSpins == recv = "push" /\ buf # << >> /\ ~Head(buf).cr /\ Full(rev_fifo)
RevPush ==
    /\ recv = "push" /\ buf # << >> /\ ~ReceiverSpins
    /\ rev_fifo' = IF Head(buf).cr THEN rev_fifo ELSE push(rev_fifo, Head(buf).num)
    /\ buf' = Tail(buf)
    /\ UNCHANGED <<send_fifo, flags, server, recv, client, guest, history>>
BufDone ==
    /\ recv = "push" /\ buf = << >>
    /\ recv' = "test"
    /\ UNCHANGED <<send_fifo, rev_fifo, flags, server, buf, client, guest, history>>

-----------------------------------------------------------------------------
(* The server thread.                                                       *)
ServerTop ==
    /\ server = "top"
    /\ IF program_stop THEN server' = "ended" /\ thread_stopped' = TRUE
       ELSE server' = "accept" /\ UNCHANGED thread_stopped
    /\ UNCHANGED <<send_fifo, rev_fifo, program_stop, recv_stop, recv_stopped, recv, buf,
                   client, guest, history>>

KeepStopped == recv_stop' = FALSE /\ UNCHANGED recv_stopped       \* mutant of ResetFlags
ResetFlags == recv_stop' = FALSE /\ recv_stopped' = FALSE
Accept ==
    /\ server = "accept"
    /\ client' = "open"
    /\ ResetFlags
    /\ recv' = "test"
    /\ server' = "serve"
    /\ UNCHANGED <<send_fifo, rev_fifo, program_stop, thread_stopped, buf, guest, history>>

(* One turn of the loop: send the front character, pop it, look at the      *)
(* receiver.  A client that has closed may still be sent to.                *)
SendOk ==
    /\ server = "serve" /\ send_fifo # << >> /\ client \in {"open", "closed"}
    /\ shown' = Succ(Head(send_fifo), OutChars)
    /\ server' = "pop"
    /\ UNCHANGED <<send_fifo, rev_fifo, flags, recv, buf, client, guest, received, read, printed>>
PopAfterFailure ==                               \* mutant of KeepUnsent
    send_fifo' = Tail(send_fifo)
KeepUnsent == UNCHANGED send_fifo
SendThrows ==
    /\ server = "serve" /\ send_fifo # << >> /\ client \in {"closed", "reset"}
    /\ KeepUnsent
    /\ recv_stop' = TRUE /\ server' = "join"
    /\ UNCHANGED <<rev_fifo, program_stop, recv_stopped, thread_stopped, recv, buf,
                   client, guest, history>>
SendPop ==
    /\ server = "pop" /\ send_fifo # << >>
    /\ send_fifo' = Tail(send_fifo)
    /\ server' = "test"
    /\ UNCHANGED <<rev_fifo, flags, recv, buf, client, guest, history>>
NothingToSend ==
    /\ server = "serve" /\ send_fifo = << >>
    /\ server' = "test"
    /\ UNCHANGED <<send_fifo, rev_fifo, flags, recv, buf, client, guest, history>>
ServeTest ==
    /\ server = "test"
    /\ IF recv_stopped THEN server' = "join" /\ recv_stop' = TRUE
                       ELSE server' = "serve" /\ UNCHANGED recv_stop
    /\ UNCHANGED <<send_fifo, rev_fifo, program_stop, recv_stopped, thread_stopped, recv, buf,
                   client, guest, history>>

(* The receiver has ended; the connection is shut down and closed.  An      *)
(* exception of shutdown ends the thread without its last statement.        *)
Join ==
    /\ server = "join" /\ recv = "done"
    /\ recv' = "none" /\ client' = "none"
    /\ server' \in IF client = "reset" THEN {"dead", "top"} ELSE {"top"}
    /\ UNCHANGED <<send_fifo, rev_fifo, flags, buf, guest, history>>

(* The client goes.                                                         *)
Leave ==
    /\ \/ client = "open" /\ client' \in {"closed", "reset"}
       \/ client = "closed" /\ client' = "reset"
    /\ UNCHANGED <<send_fifo, rev_fifo, flags, server, recv, buf, guest, history>>

-----------------------------------------------------------------------------
Guest == Peek \/ PeekFlushed \/ PeekRetired \/ Getc \/ Putc \/ SyncPop \/ SyncPush \/ Quit
Receiver == RecvTest \/ Receive \/ ReceiveThrows \/ RevPush \/ BufDone
Serve == ServerTop \/ SendOk \/ SendThrows \/ SendPop \/ NothingToSend \/ ServeTest \/ Join

Next == Guest \/ Receiver \/ Serve \/ Accept \/ Leave

Spec == Init /\ [][Next]_vars

(* The threads are scheduled; the guest's driver polls for ever and not     *)
(* every read of it is flushed; of the clients that come some read, and     *)
(* what a client that is gone has sent comes to an end.  Clients need not   *)
(* come or leave, nor send anything.                                        *)
FairSpec == /\ Spec
            /\ WF_vars(Serve) /\ SF_vars(SendOk)
            /\ WF_vars(RecvTest \/ RevPush \/ BufDone) /\ SF_vars(ReceiveThrows)
            /\ WF_vars(SyncPop) /\ WF_vars(SyncPush)
            /\ SF_vars(Peek) /\ SF_vars(PeekRetired) /\ SF_vars(Getc)

-----------------------------------------------------------------------------
(* The guest gets exactly the characters clients send, carriage returns     *)
(* left out, in order and once each, across connections and although reads  *)
(* are flushed and repeated; and the pop of getc never spins, since what    *)
(* was peeked is still the front when the write reaches charfifo::filter.   *)
InputExact ==
    LET next == IF buf = << >> THEN received ELSE Head(buf).num   \* the next to be pushed
    IN  /\ Consecutive(rev_fifo, read, next, InChars)
        /\ Numbered(buf, next, received)
        /\ spin = "pop" => rev_fifo # << >> /\ val = Head(rev_fifo)

(* What the guest prints is sent in order and once each: a character whose  *)
(* send throws stays in the queue for the next client.                      *)
OutputExact ==
    LET unsent == IF server = "pop" THEN Tail(send_fifo) ELSE send_fifo
    IN  Consecutive(unsent, shown, printed, OutChars)

(* The ways the device can hang are these and no others.  A write of the    *)
(* guest that meets a full send_fifo, and with it the core, goes on unless  *)
(* the server thread waits for a client and none comes, or is dead, or      *)
(* joins a receiver that itself waits for the stopped core to read.  A join *)
(* ends unless that, or the program has stopped with rev_fifo full.  After  *)
(* quit the server thread ends once no client is there, unless it is dead   *)
(* or the receiver spins.                                                   *)
GuestSpins == spin = "push" /\ Full(send_fifo)
Wedged == GuestSpins /\ (server = "dead" \/ (server = "join" /\ ReceiverSpins))
HangsOnlyIf ==
    /\ GuestSpins ~> ~GuestSpins \/ Wedged \/ [](server = "accept")
    /\ server = "join" ~> server # "join" \/ Wedged \/ (program_stop /\ ReceiverSpins)
    /\ program_stop /\ client # "open" /\ server # "accept"
          ~> thread_stopped \/ server = "dead" \/ ReceiverSpins
=============================================================================
