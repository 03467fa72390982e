----------------------------- MODULE LineChannel -----------------------------
(***************************************************************************)
(* send, recv and send_recv of a SandboxedProcess (process/mod.rs): lines  *)
(* over two pipes of bounded size, the BufReader and the limit of          *)
(* max_recv_line_bytes, against a harness that reads, writes and closes    *)
(* its ends whenever it likes.                                             *)
(*                                                                         *)
(* Both streams are kept whole, with the positions up to which they have   *)
(* been written and read.  A byte is a newline, a character of one byte,   *)
(* or one of the two bytes of a longer character.                          *)
(***************************************************************************)
EXTENDS Naturals, Sequences

CONSTANTS
  Limit,      \* max_recv_line_bytes
  PipeSize,   \* capacity of a pipe
  BufSize,    \* capacity of the BufReader
  Requests,   \* lines the owner sends
  MaxOut,     \* bound: bytes the harness writes
  MaxIn       \* bound: bytes of requests

Byte == {"plain", "lead", "trail", "newline"}

\* validate_inputs refuses a limit of zero.
ASSUME LimitAssumption == Limit \in Nat \ {0}
ASSUME SizeAssumption == /\ PipeSize \in Nat \ {0} /\ BufSize \in Nat \ {0}
                         /\ MaxOut \in Nat /\ MaxIn \in Nat
ASSUME RequestAssumption == Requests \subseteq Seq(Byte)

VARIABLES
  call,       \* what the owner is doing
  \* stdout
  out,        \* what the harness has written
  filled,     \* how much of it has been read into the BufReader
  consumed,   \* how much of that recv has taken
  start,      \* where the frame of this recv, or of the next, begins
  writes,     \* some process still holds the pipe's other end
  \* stdin
  inp,        \* what has been written
  taken,      \* how much of it the harness has read
  left,       \* what the current send has still to write
  then,       \* what follows the send: nothing, or the recv of send_recv
  reads,      \* the harness holds the pipe's other end
  \* history
  frames,     \* the intervals of out that the calls of recv returned
  ended,      \* recv has returned None
  sent        \* the ends in inp of the sends that succeeded

stdout == <<out, filled, consumed, start, writes>>
stdin == <<inp, taken, left, then, reads>>
vars == <<call, stdout, stdin, frames, ended, sent>>

Frame == [from: Nat, to: Nat]

TypeOK ==
  /\ call \in {"idle", "recv", "send"}
  /\ out \in Seq(Byte)
  /\ filled \in 0 .. Len(out)
  /\ consumed \in 0 .. filled
  /\ start \in 0 .. consumed
  /\ writes \in BOOLEAN
  /\ inp \in Seq(Byte)
  /\ taken \in 0 .. Len(inp)
  /\ left \in Seq(Byte)
  /\ then \in {"idle", "recv"}
  /\ reads \in BOOLEAN
  /\ frames \in Seq(Frame)
  /\ ended \in BOOLEAN
  /\ sent \in Seq(Nat)

Init ==
  /\ call = "idle"
  /\ out = <<>> /\ filled = 0 /\ consumed = 0 /\ start = 0 /\ writes = TRUE
  /\ inp = <<>> /\ taken = 0 /\ left = <<>> /\ then = "idle" /\ reads = TRUE
  /\ frames = <<>> /\ ended = FALSE /\ sent = <<>>

-----------------------------------------------------------------------------
(* recv *)

\* A Take of the BufReader, and read_line on it.
RecvBegin == /\ call = "idle"
             /\ call' = "recv"
             /\ UNCHANGED <<stdout, stdin, frames, ended, sent>>

\* Mutated form: one byte less than the limit.
LineDoneShort == \/ consumed > start /\ out[consumed] = "newline"
                 \/ consumed + 1 >= start + Limit

\* read_line needs no more: a newline, or the Take is used up.
LineDone == \/ consumed > start /\ out[consumed] = "newline"
            \/ consumed = start + Limit

\* Mutated form: it waits until it can fill the buffer.
FillWhole == /\ call = "recv" /\ ~LineDone
             /\ consumed = filled
             /\ Len(out) - filled >= BufSize
             /\ filled' = filled + BufSize
             /\ UNCHANGED <<call, out, consumed, start, writes, stdin, frames, ended, sent>>

\* Mutated form: the buffer counts as full whatever read returned.
FillUnchecked == /\ call = "recv" /\ ~LineDone
                 /\ consumed = filled
                 /\ filled < Len(out)
                 /\ filled' = filled + BufSize
                 /\ UNCHANGED <<call, out, consumed, start, writes, stdin, frames, ended, sent>>

\* fill_buf reads what the pipe holds, up to its capacity, and only when the
\* buffer is empty; it blocks while the pipe is empty.
Fill == /\ call = "recv" /\ ~LineDone
        /\ consumed = filled
        /\ filled < Len(out)
        /\ filled' = IF Len(out) - filled < BufSize THEN Len(out) ELSE filled + BufSize
        /\ UNCHANGED <<call, out, consumed, start, writes, stdin, frames, ended, sent>>

\* Mutated form: the Take is made anew for every part of a line.
ConsumeRelimited ==
  /\ call = "recv" /\ ~(consumed > start /\ out[consumed] = "newline")
  /\ \E e \in (consumed + 1) .. filled :
       /\ e <= consumed + Limit
       /\ \A i \in (consumed + 1) .. (e - 1) : out[i] # "newline"
       /\ out[e] = "newline" \/ e = consumed + Limit \/ e = filled
       /\ consumed' = e
  /\ UNCHANGED <<call, out, filled, start, writes, stdin, frames, ended, sent>>

\* read_line takes what is buffered, up to a newline or the end of the Take.
Consume ==
  /\ call = "recv" /\ ~LineDone
  /\ \E e \in (consumed + 1) .. filled :
       /\ e <= start + Limit
       /\ \A i \in (consumed + 1) .. (e - 1) : out[i] # "newline"
       /\ out[e] = "newline" \/ e = start + Limit \/ e = filled
       /\ consumed' = e
  /\ UNCHANGED <<call, out, filled, start, writes, stdin, frames, ended, sent>>

EndOfFile == consumed = filled /\ filled = Len(out) /\ ~writes

\* The bytes of this frame are UTF-8.
Valid(from, to) == \A i \in (from + 1) .. to :
  /\ out[i] = "lead" => i < to /\ out[i + 1] = "trail"
  /\ out[i] = "trail" => i > from + 1 /\ out[i - 1] = "lead"

Return == /\ call' = "idle"
          /\ start' = consumed
          /\ UNCHANGED <<out, filled, consumed, writes, stdin, sent>>

\* Mutated form: a fresh BufReader for every call.
RecvFrameFresh == /\ call = "recv"
                  /\ consumed > start
                  /\ LineDone \/ EndOfFile
                  /\ frames' = Append(frames, [from |-> start, to |-> consumed])
                  /\ call' = "idle" /\ consumed' = filled /\ start' = filled
                  /\ UNCHANGED <<out, filled, writes, stdin, sent, ended>>

\* Ok(Some(line)); or an error when the bytes are not UTF-8, which are
\* consumed all the same.
RecvFrame == /\ call = "recv"
             /\ consumed > start
             /\ LineDone \/ EndOfFile
             /\ frames' = Append(frames, [from |-> start, to |-> consumed])
             /\ Return
             /\ UNCHANGED ended

\* Mutated form: an empty pipe is taken for its end.
RecvNoneEmpty == /\ call = "recv"
                 /\ consumed = start
                 /\ consumed = filled /\ filled = Len(out)
                 /\ ended' = TRUE
                 /\ Return
                 /\ UNCHANGED frames

\* Ok(None): not a byte, and end of file.
RecvNone == /\ call = "recv"
            /\ consumed = start
            /\ EndOfFile
            /\ ended' = TRUE
            /\ Return
            /\ UNCHANGED frames

-----------------------------------------------------------------------------
(* send and send_recv *)

\* writeln!(stdin, "{line}")
SendBegin(line, next) ==
  /\ call = "idle"
  /\ Len(inp) + Len(line) < MaxIn
  /\ call' = "send"
  /\ left' = Append(line, "newline")
  /\ then' = next
  /\ UNCHANGED <<stdout, inp, taken, reads, frames, ended, sent>>

\* write_all; it blocks while the pipe is full.
SendByte == /\ call = "send" /\ left # <<>>
            /\ reads
            /\ Len(inp) - taken < PipeSize
            /\ inp' = Append(inp, Head(left))
            /\ left' = Tail(left)
            /\ UNCHANGED <<call, stdout, taken, then, reads, frames, ended, sent>>

\* Mutated form: write in place of write_all, which stops at a full pipe.
SendPart == /\ call = "send"
            /\ left = <<>> \/ Len(inp) - taken = PipeSize
            /\ call' = then
            /\ left' = <<>>
            /\ sent' = Append(sent, Len(inp))
            /\ UNCHANGED <<stdout, inp, taken, then, reads, frames, ended>>

\* Ok(()), or on to the recv of send_recv.
SendOk == /\ call = "send" /\ left = <<>>
          /\ call' = then
          /\ sent' = Append(sent, Len(inp))
          /\ UNCHANGED <<stdout, stdin, frames, ended>>

\* A broken pipe: the rest is not written, and send_recv does not read.
SendFails == /\ call = "send" /\ left # <<>>
             /\ ~reads
             /\ call' = "idle"
             /\ left' = <<>>
             /\ UNCHANGED <<stdout, inp, taken, then, reads, frames, ended, sent>>

-----------------------------------------------------------------------------
(* The harness *)

HarnessWrites(b) == /\ writes
                    /\ Len(out) < MaxOut
                    /\ Len(out) - filled < PipeSize
                    /\ out' = Append(out, b)
                    /\ UNCHANGED <<call, filled, consumed, start, writes, stdin, frames, ended, sent>>

HarnessReads == /\ reads
                /\ taken < Len(inp)
                /\ taken' = taken + 1
                /\ UNCHANGED <<call, stdout, inp, left, then, reads, frames, ended, sent>>

CloseStdout == /\ writes
               /\ writes' = FALSE
               /\ UNCHANGED <<call, out, filled, consumed, start, stdin, frames, ended, sent>>

CloseStdin == /\ reads
              /\ reads' = FALSE
              /\ UNCHANGED <<call, stdout, inp, taken, left, then, frames, ended, sent>>

-----------------------------------------------------------------------------

RecvStep == Fill \/ Consume \/ RecvFrame \/ RecvNone
SendStep == SendByte \/ SendOk \/ SendFails

Harness == \/ \E b \in Byte : HarnessWrites(b)
           \/ HarnessReads \/ CloseStdout \/ CloseStdin

Next == \/ RecvBegin \/ RecvStep
        \/ \E line \in Requests, next \in {"idle", "recv"} : SendBegin(line, next)
        \/ SendStep
        \/ Harness

\* The owner's thread runs on inside a call; the harness owes nothing.
Spec == Init /\ [][Next]_vars /\ WF_vars(RecvStep) /\ WF_vars(SendStep)

-----------------------------------------------------------------------------
(* Safety *)

Newline(i) == out[i] = "newline"

Full(f) == f.to - f.from = Limit

\* However the bytes arrive and are buffered, the calls of recv cut the output
\* into adjacent frames, none lost and none seen twice, and each ends at its
\* first newline, at the limit or at the end of the output (mod.rs:327-337).
FramesWhole ==
  /\ \A k \in DOMAIN frames :
       LET f == frames[k]
       IN  /\ f.from = IF k = 1 THEN 0 ELSE frames[k - 1].to
           /\ f.from < f.to /\ f.to <= f.from + Limit
           /\ \A i \in (f.from + 1) .. (f.to - 1) : ~Newline(i)
           /\ Newline(f.to) \/ Full(f) \/ (~writes /\ f.to = Len(out))
  /\ start = IF frames = <<>> THEN 0 ELSE frames[Len(frames)].to

\* Every line, with its newline, is within the limit.
LinesFit == \A a \in 0 .. (Len(out) - Limit) :
  (a = 0 \/ Newline(a)) => \E i \in (a + 1) .. (a + Limit) : Newline(i)

\* If no line is longer than the limit, every call returns one line, whole: it
\* begins behind a newline and ends at the next (the doc at mod.rs:312 says
\* "Read one line").
ShortLinesWhole == LinesFit => \A k \in DOMAIN frames :
  /\ frames[k].from = 0 \/ Newline(frames[k].from)
  /\ Newline(frames[k].to) \/ (~writes /\ frames[k].to = Len(out))

\* If the harness writes whole characters, recv fails only next to a place where
\* the limit has cut a line, or at an end of the output inside a character.
WellFormed == \A i \in DOMAIN out :
  /\ out[i] = "lead" => i = Len(out) \/ out[i + 1] = "trail"
  /\ out[i] = "trail" => i > 1 /\ out[i - 1] = "lead"

ErrorOnlyAtCut == WellFormed => \A k \in DOMAIN frames :
  \/ Valid(frames[k].from, frames[k].to)
  \/ Full(frames[k])
  \/ k > 1 /\ Full(frames[k - 1])
  \/ ~writes /\ frames[k].to = Len(out) /\ out[Len(out)] = "lead"

\* None comes only after everything the harness ever wrote has been returned.
NoneIsTheEnd == ended => ~writes /\ start = Len(out)

\* A send that succeeds puts its newline behind its line, and only the last
\* send, which failed or goes on, may have left a part of one: the harness
\* never reads two requests run together (mod.rs:306-310).
RequestsWhole ==
  /\ \A k \in DOMAIN sent : sent[k] > 0 /\ inp[sent[k]] = "newline"
  /\ reads /\ call # "send" => IF sent = <<>> THEN inp = <<>> ELSE Len(inp) = sent[Len(sent)]

-----------------------------------------------------------------------------
(* Liveness *)

\* Some byte of what is written ends the frame of the current call.
Available == \/ \E i \in (start + 1) .. Len(out) : Newline(i)
             \/ Len(out) >= start + Limit
             \/ ~writes

\* recv returns as soon as its line is there, also when the harness then stays
\* silent with its pipe open.
RecvReturns == call = "recv" /\ Available ~> call # "recv"
=============================================================================
