------------------------- MODULE LineChannel_proofs -------------------------
(* Proofs about the lines of LineChannel, for every limit, pipe, buffer and *)
(* stream: however the bytes arrive, recv cuts the output at newlines and   *)
(* at the limit and nowhere else, and send tears no request.                *)
EXTENDS LineChannel, TLAPS

-----------------------------------------------------------------------------
(* The inductive invariant *)

\* The frame that is being read.
RecvInv == /\ call # "recv" => start = consumed
           /\ consumed <= start + Limit
           /\ \A i \in (start + 1) .. (consumed - 1) : ~Newline(i)

\* Frames lie within what has been taken.
FrameInv == \A k \in DOMAIN frames : frames[k].to <= start

\* A frame, and the next one, begins behind a newline when every line fits.
LineStart(p) == p = 0 \/ Newline(p)
AtEnd(p) == ~writes /\ p = Len(out)

LineInv == LinesFit => LineStart(start) \/ AtEnd(start)

\* What a send has still to write ends with its newline.
SendInv ==
  /\ call # "send" => left = <<>>
  /\ call = "send" => IF left = <<>> THEN inp # <<>> /\ inp[Len(inp)] = "newline"
                                     ELSE left[Len(left)] = "newline"
  /\ \A k \in DOMAIN sent : sent[k] <= Len(inp)

RecvSide == /\ RecvInv /\ FrameInv /\ LineInv
            /\ FramesWhole /\ ShortLinesWhole /\ NoneIsTheEnd

SendSide == SendInv /\ RequestsWhole

IInv == TypeOK /\ RecvSide /\ SendSide

-----------------------------------------------------------------------------
(* Either side moves while the other stands still *)

\* What a step of the other side does not touch leaves the frames as they were.
LEMMA RecvSideStands ==
  ASSUME RecvSide,
         UNCHANGED <<out, consumed, start, writes, frames, ended>>,
         call # "recv" \/ call' = call
  PROVE  RecvSide'
<1>1. RecvInv'
  BY DEF RecvSide, RecvInv, Newline
<1>2. FrameInv' /\ LineInv'
  BY DEF RecvSide, FrameInv, LineInv, LinesFit, LineStart, AtEnd, Newline
<1>3. FramesWhole'
  BY DEF RecvSide, FramesWhole, Newline, Full
<1>4. ShortLinesWhole' /\ NoneIsTheEnd'
  BY DEF RecvSide, ShortLinesWhole, LinesFit, NoneIsTheEnd, Newline
<1> QED
  BY <1>1, <1>2, <1>3, <1>4 DEF RecvSide

\* The same for the requests; the harness may close its end.
LEMMA SendSideStands ==
  ASSUME SendSide,
         UNCHANGED <<inp, left, sent>>,
         reads' => reads,
         (call' = "send") <=> (call = "send")
  PROVE  SendSide'
<1>1. SendInv'
  BY DEF SendSide, SendInv
<1>2. RequestsWhole'
  BY DEF SendSide, RequestsWhole
<1> QED
  BY <1>1, <1>2 DEF SendSide

-----------------------------------------------------------------------------
(* One step per action *)

LEMMA InitInv == Init => IInv
<1> SUFFICES ASSUME Init PROVE IInv
  OBVIOUS
<1>1. TypeOK
  <2>1. /\ out \in Seq(Byte) /\ inp \in Seq(Byte) /\ left \in Seq(Byte)
        /\ frames \in Seq(Frame) /\ sent \in Seq(Nat)
    BY DEF Init
  <2>2. Len(out) = 0 /\ Len(inp) = 0
    BY DEF Init
  <2>3. /\ call = "idle" /\ filled = 0 /\ consumed = 0 /\ start = 0 /\ writes = TRUE
        /\ taken = 0 /\ then = "idle" /\ reads = TRUE /\ ended = FALSE
    BY DEF Init
  <2>4. filled \in 0 .. Len(out) /\ consumed \in 0 .. filled /\ start \in 0 .. consumed /\ taken \in 0 .. Len(inp)
    BY <2>2, <2>3
  <2> QED
    BY <2>1, <2>3, <2>4 DEF TypeOK
<1>2. RecvSide
  BY LimitAssumption DEF Init, RecvSide, RecvInv, FrameInv, LineInv, LineStart,
     FramesWhole, ShortLinesWhole, NoneIsTheEnd
<1>3. SendSide
  BY DEF Init, SendSide, SendInv, RequestsWhole
<1> QED
  BY <1>1, <1>2, <1>3 DEF IInv

LEMMA RecvBeginStep == IInv /\ RecvBegin => IInv'
<1> SUFFICES ASSUME IInv, RecvBegin PROVE IInv'
  OBVIOUS
<1>1. TypeOK'
  BY DEF IInv, TypeOK, RecvBegin, stdout, stdin
<1>2. RecvSide'
  BY RecvSideStands DEF IInv, RecvBegin, stdout
<1>3. SendSide'
  BY SendSideStands DEF IInv, RecvBegin, stdin
<1> QED
  BY <1>1, <1>2, <1>3 DEF IInv

LEMMA FillStep == IInv /\ Fill => IInv'
<1> SUFFICES ASSUME IInv, Fill PROVE IInv'
  OBVIOUS
<1>1. TypeOK'
  BY SizeAssumption DEF IInv, TypeOK, Fill, stdin
<1>2. RecvSide'
  BY RecvSideStands DEF IInv, Fill
<1>3. SendSide'
  BY SendSideStands DEF IInv, Fill, stdin
<1> QED
  BY <1>1, <1>2, <1>3 DEF IInv

\* What is taken stays short of the limit and of a newline that is not its last
\* byte.
LEMMA ConsumeStep == IInv /\ Consume => IInv'
<1> SUFFICES ASSUME IInv, Consume PROVE IInv'
  OBVIOUS
<1>u. /\ call = "recv" /\ ~LineDone
      /\ UNCHANGED <<call, out, filled, start, writes, inp, taken, left, then, reads, frames, ended, sent>>
  BY DEF Consume, stdin
<1>e. PICK e \in (consumed + 1) .. filled :
         /\ e <= start + Limit
         /\ \A i \in (consumed + 1) .. (e - 1) : out[i] # "newline"
         /\ consumed' = e
  BY DEF Consume
<1>t. TypeOK /\ RecvSide /\ SendSide
  BY DEF IInv
<1>1. TypeOK'
  BY <1>u, <1>e, <1>t DEF TypeOK
<1>2. RecvInv'
  <2>1. consumed = start \/ ~Newline(consumed)
    BY <1>u, <1>t DEF LineDone, TypeOK, Newline
  <2>2. \A i \in (start + 1) .. (e - 1) : ~Newline(i)
    BY <1>e, <1>t, <2>1 DEF TypeOK, RecvSide, RecvInv, Newline
  <2> QED
    BY <1>u, <1>e, <2>2 DEF RecvInv, Newline
<1>3. FrameInv' /\ LineInv'
  BY <1>u, <1>t DEF RecvSide, FrameInv, LineInv, LinesFit, LineStart, AtEnd, Newline
<1>4. FramesWhole'
  BY <1>u, <1>t DEF RecvSide, FramesWhole, Newline, Full
<1>5. ShortLinesWhole' /\ NoneIsTheEnd'
  BY <1>u, <1>t DEF RecvSide, ShortLinesWhole, LinesFit, NoneIsTheEnd, Newline
<1>6. SendSide'
  BY <1>u, <1>t, SendSideStands
<1> QED
  BY <1>1, <1>2, <1>3, <1>4, <1>5, <1>6 DEF IInv, RecvSide

\* Where the frame of this call ends, and what that says when every line fits.
LEMMA FrameEnds ==
  ASSUME IInv, consumed > start, LineDone \/ EndOfFile
  PROVE  /\ Newline(consumed) \/ consumed = start + Limit \/ AtEnd(consumed)
         /\ LinesFit => LineStart(start) /\ (Newline(consumed) \/ AtEnd(consumed))
<1>t. TypeOK /\ RecvInv /\ LineInv
  BY DEF IInv, RecvSide
<1>1. Newline(consumed) \/ consumed = start + Limit \/ AtEnd(consumed)
  BY DEF LineDone, EndOfFile, Newline, AtEnd
<1>2. ASSUME LinesFit PROVE LineStart(start)
  BY <1>2, <1>t DEF LineInv, AtEnd, TypeOK
<1>3. ASSUME LinesFit, consumed = start + Limit PROVE Newline(consumed)
  <2>1. start \in 0 .. (Len(out) - Limit)
    BY <1>3, <1>t, LimitAssumption DEF TypeOK
  <2>2. PICK i \in (start + 1) .. (start + Limit) : Newline(i)
    BY <1>2, <1>3, <2>1 DEF LinesFit, LineStart
  <2>3. i = consumed
    BY <1>3, <1>t, <2>2, LimitAssumption DEF RecvInv, TypeOK
  <2> QED
    BY <2>2, <2>3
<1> QED
  BY <1>1, <1>2, <1>3

LEMMA RecvFrameStep == IInv /\ RecvFrame => IInv'
<1> SUFFICES ASSUME IInv, RecvFrame PROVE IInv'
  OBVIOUS
<1> DEFINE new == [from |-> start, to |-> consumed]
<1>u. /\ call = "recv" /\ consumed > start /\ (LineDone \/ EndOfFile)
      /\ frames' = Append(frames, new)
      /\ call' = "idle" /\ start' = consumed
      /\ UNCHANGED <<out, filled, consumed, writes, inp, taken, left, then, reads, ended, sent>>
  BY DEF RecvFrame, Return, stdin
<1>t. TypeOK /\ RecvSide /\ SendSide
  BY DEF IInv
<1>n. new \in Frame /\ new.from = start /\ new.to = consumed
  BY <1>t DEF TypeOK, Frame
<1>e. /\ Newline(consumed) \/ consumed = start + Limit \/ AtEnd(consumed)
      /\ LinesFit => LineStart(start) /\ (Newline(consumed) \/ AtEnd(consumed))
  BY <1>u, FrameEnds
<1>k. /\ Len(frames') = Len(frames) + 1 /\ DOMAIN frames' = 1 .. (Len(frames) + 1)
      /\ DOMAIN frames = 1 .. Len(frames) /\ Len(frames) \in Nat
      /\ \A k \in DOMAIN frames : frames'[k] = frames[k] /\ frames[k] \in Frame
      /\ frames'[Len(frames) + 1] = new
  <2> HIDE DEF new
  <2>1. frames \in Seq(Frame)
    BY <1>t DEF TypeOK
  <2> QED
    BY <1>u, <1>n, <2>1
<1> HIDE DEF new
<1>1. TypeOK'
  BY <1>u, <1>t, <1>n DEF TypeOK
<1>2. RecvInv' /\ FrameInv'
  <2>1. \A i \in (consumed + 1) .. (consumed - 1) : FALSE
    BY <1>t DEF TypeOK
  <2>2. RecvInv'
    BY <1>u, <1>t, <2>1, LimitAssumption DEF RecvInv, TypeOK
  <2>3. ASSUME NEW k \in DOMAIN frames PROVE frames'[k].to <= consumed
    <3>1. frames[k].to \in Nat /\ start \in Nat /\ consumed \in Nat
      BY <1>k, <1>t DEF TypeOK, Frame
    <3> QED
      BY <1>u, <1>t, <1>k, <3>1 DEF RecvSide, FrameInv
  <2>4. frames'[Len(frames) + 1].to <= consumed
    BY <1>k, <1>n, <1>t DEF TypeOK
  <2> QED
    BY <1>u, <1>k, <2>2, <2>3, <2>4 DEF FrameInv
<1>3. LineInv'
  BY <1>u, <1>e DEF LineInv, LinesFit, LineStart, AtEnd, Newline
<1>4. FramesWhole'
  <2>1. ASSUME NEW k \in DOMAIN frames
        PROVE  /\ frames'[k].from = IF k = 1 THEN 0 ELSE frames'[k - 1].to
               /\ frames'[k].from < frames'[k].to /\ frames'[k].to <= frames'[k].from + Limit
               /\ \A i \in (frames'[k].from + 1) .. (frames'[k].to - 1) : ~Newline(i)
               /\ \/ Newline(frames'[k].to) \/ Full(frames'[k])
                  \/ ~writes /\ frames'[k].to = Len(out)
    <3>1. k # 1 => k - 1 \in DOMAIN frames
      BY <1>k
    <3> QED
      BY <1>k, <1>t, <2>1, <3>1 DEF RecvSide, FramesWhole
  <2>2. /\ new.from = IF Len(frames) + 1 = 1 THEN 0 ELSE frames'[Len(frames)].to
        /\ new.from < new.to /\ new.to <= new.from + Limit
        /\ \A i \in (new.from + 1) .. (new.to - 1) : ~Newline(i)
        /\ Newline(new.to) \/ Full(new) \/ (~writes /\ new.to = Len(out))
    <3>1. start = IF Len(frames) = 0 THEN 0 ELSE frames[Len(frames)].to
      BY <1>t DEF RecvSide, FramesWhole, TypeOK
    <3>2. Len(frames) # 0 => Len(frames) \in DOMAIN frames
      BY <1>k
    <3>3. new.from = IF Len(frames) + 1 = 1 THEN 0 ELSE frames'[Len(frames)].to
      BY <1>k, <1>n, <3>1, <3>2
    <3>4. /\ new.from < new.to /\ new.to <= new.from + Limit
          /\ \A i \in (new.from + 1) .. (new.to - 1) : ~Newline(i)
      BY <1>u, <1>n, <1>t DEF RecvSide, RecvInv, TypeOK
    <3>5. Newline(new.to) \/ Full(new) \/ (~writes /\ new.to = Len(out))
      BY <1>n, <1>e, <1>t, LimitAssumption DEF AtEnd, Full, TypeOK
    <3> QED
      BY <3>3, <3>4, <3>5
  <2>3. \A k \in DOMAIN frames' :
               /\ frames'[k].from = IF k = 1 THEN 0 ELSE frames'[k - 1].to
               /\ frames'[k].from < frames'[k].to /\ frames'[k].to <= frames'[k].from + Limit
               /\ \A i \in (frames'[k].from + 1) .. (frames'[k].to - 1) : ~Newline(i)
               /\ \/ Newline(frames'[k].to) \/ Full(frames'[k])
                  \/ ~writes /\ frames'[k].to = Len(out)
    <3> SUFFICES ASSUME NEW k \in DOMAIN frames'
                 PROVE  /\ frames'[k].from = IF k = 1 THEN 0 ELSE frames'[k - 1].to
                        /\ frames'[k].from < frames'[k].to /\ frames'[k].to <= frames'[k].from + Limit
                        /\ \A i \in (frames'[k].from + 1) .. (frames'[k].to - 1) : ~Newline(i)
                        /\ \/ Newline(frames'[k].to) \/ Full(frames'[k])
                           \/ ~writes /\ frames'[k].to = Len(out)
      OBVIOUS
    <3>1. CASE k \in DOMAIN frames
      BY <2>1, <3>1
    <3>2. CASE k = Len(frames) + 1
      <4>1. k - 1 = Len(frames)
        BY <3>2, <1>k
      <4> QED
        BY <2>2, <3>2, <4>1, <1>k
    <3> QED
      BY <1>k, <3>1, <3>2
  <2>4. start' = frames'[Len(frames')].to /\ frames' # <<>>
    BY <1>u, <1>k, <1>n
  <2> QED
    BY <1>u, <2>3, <2>4 DEF FramesWhole, Newline, Full
<1>5. ShortLinesWhole'
  <2> SUFFICES ASSUME LinesFit, NEW k \in DOMAIN frames'
               PROVE  /\ frames'[k].from = 0 \/ Newline(frames'[k].from)
                      /\ Newline(frames'[k].to) \/ (~writes /\ frames'[k].to = Len(out))
    BY <1>u DEF ShortLinesWhole, LinesFit, Newline
  <2>1. CASE k \in DOMAIN frames
    BY <2>1, <1>k, <1>t DEF RecvSide, ShortLinesWhole
  <2>2. CASE k = Len(frames) + 1
    BY <2>2, <1>k, <1>n, <1>e DEF LineStart, AtEnd
  <2> QED
    BY <1>k, <2>1, <2>2
<1>6. NoneIsTheEnd'
  BY <1>u, <1>t DEF RecvSide, NoneIsTheEnd, TypeOK
<1>7. SendSide'
  BY <1>u, <1>t, SendSideStands
<1> QED
  BY <1>1, <1>2, <1>3, <1>4, <1>5, <1>6, <1>7 DEF IInv, RecvSide

LEMMA RecvNoneStep == IInv /\ RecvNone => IInv'
<1> SUFFICES ASSUME IInv, RecvNone PROVE IInv'
  OBVIOUS
<1>u. /\ call = "recv" /\ consumed = start /\ EndOfFile
      /\ ended' /\ ended' = TRUE /\ call' = "idle" /\ start' = start
      /\ UNCHANGED <<out, filled, consumed, writes, inp, taken, left, then, reads, frames, sent>>
  BY DEF RecvNone, Return, stdin
<1>t. TypeOK /\ RecvSide /\ SendSide
  BY DEF IInv
<1>1. TypeOK'
  BY <1>u, <1>t DEF TypeOK
<1>2. RecvInv' /\ FrameInv'
  BY <1>u, <1>t DEF RecvSide, RecvInv, FrameInv, Newline
<1>3. LineInv' /\ ShortLinesWhole'
  BY <1>u, <1>t DEF RecvSide, LineInv, ShortLinesWhole, LinesFit, LineStart, AtEnd, Newline
<1>4. FramesWhole'
  BY <1>u, <1>t DEF RecvSide, FramesWhole, Newline, Full
<1>5. NoneIsTheEnd'
  BY <1>u DEF NoneIsTheEnd, EndOfFile
<1>6. SendSide'
  BY <1>u, <1>t, SendSideStands
<1> QED
  BY <1>1, <1>2, <1>3, <1>4, <1>5, <1>6 DEF IInv, RecvSide

LEMMA SendBeginStep ==
  ASSUME NEW line \in Requests, NEW next \in {"idle", "recv"}, IInv, SendBegin(line, next)
  PROVE  IInv'
<1>u. /\ call = "idle" /\ call' = "send"
      /\ left' = Append(line, "newline") /\ then' = next
      /\ UNCHANGED <<out, filled, consumed, start, writes, inp, taken, reads, frames, ended, sent>>
  BY DEF SendBegin, stdout
<1>t. TypeOK /\ RecvSide /\ SendSide
  BY DEF IInv
<1>l. left' \in Seq(Byte) /\ left' # <<>> /\ left'[Len(left')] = "newline"
  <2>1. line \in Seq(Byte)
    BY RequestAssumption
  <2>2. "newline" \in Byte
    BY DEF Byte
  <2> QED
    BY <1>u, <2>1, <2>2
<1>1. TypeOK'
  BY <1>u, <1>t, <1>l DEF TypeOK
<1>2. RecvSide'
  BY <1>u, <1>t, RecvSideStands
<1>3. SendSide'
  BY <1>u, <1>t, <1>l DEF SendSide, SendInv, RequestsWhole
<1> QED
  BY <1>1, <1>2, <1>3 DEF IInv

LEMMA SendByteStep == IInv /\ SendByte => IInv'
<1> SUFFICES ASSUME IInv, SendByte PROVE IInv'
  OBVIOUS
<1>u. /\ call = "send" /\ left # <<>> /\ inp' = Append(inp, Head(left)) /\ left' = Tail(left)
      /\ UNCHANGED <<call, out, filled, consumed, start, writes, taken, then, reads, frames, ended, sent>>
  BY DEF SendByte, stdout
<1>t. TypeOK /\ RecvSide /\ SendSide
  BY DEF IInv
<1>l. /\ left \in Seq(Byte) /\ Len(left) > 0 /\ Head(left) = left[1] /\ Head(left) \in Byte
      /\ left' \in Seq(Byte) /\ Len(left') = Len(left) - 1
      /\ \A i \in 1 .. (Len(left) - 1) : left'[i] = left[i + 1]
  BY <1>u, <1>t DEF TypeOK
<1>i. /\ inp \in Seq(Byte) /\ inp' \in Seq(Byte) /\ inp' # <<>>
      /\ Len(inp') = Len(inp) + 1 /\ inp'[Len(inp) + 1] = left[1]
      /\ \A k \in 1 .. Len(inp) : inp'[k] = inp[k]
  <2>1. inp \in Seq(Byte) /\ Head(left) \in Byte /\ inp' = Append(inp, Head(left))
    BY <1>u, <1>t, <1>l DEF TypeOK
  <2>2. /\ inp' \in Seq(Byte) /\ Len(inp') = Len(inp) + 1
        /\ inp'[Len(inp) + 1] = Head(left)
        /\ \A k \in 1 .. Len(inp) : inp'[k] = inp[k]
    BY <2>1
  <2>3. inp' # <<>>
    BY <2>1, <2>2
  <2> QED
    BY <1>l, <2>1, <2>2, <2>3
<1>1. TypeOK'
  BY <1>u, <1>t, <1>l, <1>i DEF TypeOK
<1>2. RecvSide'
  BY <1>u, <1>t, RecvSideStands
<1>n. left[Len(left)] = "newline"
  BY <1>u, <1>t DEF SendSide, SendInv
<1>s. \A k \in DOMAIN sent : sent[k] \in Nat /\ sent[k] <= Len(inp)
  BY <1>t DEF TypeOK, SendSide, SendInv
<1>3. SendInv'
  <2>1. CASE left' = <<>>
    <3>1. Len(left) = 1
      BY <1>l, <2>1
    <3> QED
      BY <1>u, <1>i, <1>n, <1>s, <2>1, <3>1 DEF SendInv
  <2>2. CASE left' # <<>>
    <3>1. Len(left') > 0
      BY <1>l, <2>2
    <3>2. left'[Len(left')] = "newline"
      BY <1>l, <1>n, <3>1
    <3> QED
      BY <1>u, <1>i, <1>s, <2>2, <3>2 DEF SendInv
  <2> QED
    BY <2>1, <2>2
<1>4. RequestsWhole'
  <2>1. \A k \in DOMAIN sent : sent[k] \in 1 .. Len(inp) /\ inp[sent[k]] = "newline"
    BY <1>t, <1>s DEF SendSide, RequestsWhole, TypeOK
  <2> QED
    BY <1>u, <1>i, <2>1 DEF RequestsWhole
<1> QED
  BY <1>1, <1>2, <1>3, <1>4 DEF IInv, SendSide

LEMMA SendOkStep == IInv /\ SendOk => IInv'
<1> SUFFICES ASSUME IInv, SendOk PROVE IInv'
  OBVIOUS
<1>u. /\ call = "send" /\ left = <<>> /\ call' = then /\ sent' = Append(sent, Len(inp))
      /\ UNCHANGED <<out, filled, consumed, start, writes, inp, taken, left, then, reads, frames, ended>>
  BY DEF SendOk, stdout, stdin
<1>t. TypeOK /\ RecvSide /\ SendSide
  BY DEF IInv
<1>l. then \in {"idle", "recv"} /\ inp # <<>> /\ inp[Len(inp)] = "newline" /\ Len(inp) \in Nat /\ Len(inp) > 0
  BY <1>u, <1>t DEF TypeOK, SendSide, SendInv
<1>s. /\ sent \in Seq(Nat) /\ sent' \in Seq(Nat) /\ sent' # <<>> /\ Len(sent') = Len(sent) + 1
      /\ DOMAIN sent' = 1 .. (Len(sent) + 1) /\ DOMAIN sent = 1 .. Len(sent)
      /\ sent'[Len(sent) + 1] = Len(inp)
      /\ \A k \in DOMAIN sent : sent'[k] = sent[k]
  <2>1. sent \in Seq(Nat) /\ Len(inp) \in Nat /\ sent' = Append(sent, Len(inp))
    BY <1>u, <1>t, <1>l DEF TypeOK
  <2> DEFINE n == Len(inp)
  <2>2. n \in Nat /\ sent' = Append(sent, n)
    BY <2>1
  <2> HIDE DEF n
  <2>3. /\ sent' \in Seq(Nat) /\ Len(sent') = Len(sent) + 1
        /\ DOMAIN sent' = 1 .. (Len(sent) + 1) /\ DOMAIN sent = 1 .. Len(sent)
        /\ sent'[Len(sent) + 1] = n
        /\ \A k \in DOMAIN sent : sent'[k] = sent[k]
    BY <2>1, <2>2
  <2>4. sent' # <<>>
    BY <2>1, <2>3
  <2> QED
    BY <2>1, <2>3, <2>4 DEF n
<1>1. TypeOK'
  BY <1>u, <1>t, <1>l, <1>s DEF TypeOK
<1>2. RecvSide'
  BY <1>u, <1>t, RecvSideStands
<1>k. \A k \in DOMAIN sent' : k \in DOMAIN sent \/ k = Len(sent) + 1
  BY <1>s
<1>3. SendInv'
  <2>1. \A k \in DOMAIN sent' : sent'[k] <= Len(inp)
    <3>1. \A k \in DOMAIN sent : sent[k] <= Len(inp)
      BY <1>t DEF SendSide, SendInv
    <3>2. Len(inp) <= Len(inp)
      BY <1>l
    <3> QED
      BY <1>k, <1>s, <3>1, <3>2
  <2> QED
    BY <1>u, <1>l, <2>1 DEF SendInv
<1>4. RequestsWhole'
  <2>1. \A k \in DOMAIN sent' : sent'[k] > 0 /\ inp[sent'[k]] = "newline"
    BY <1>k, <1>s, <1>t, <1>l DEF SendSide, RequestsWhole
  <2> QED
    BY <1>u, <1>s, <2>1 DEF RequestsWhole
<1> QED
  BY <1>1, <1>2, <1>3, <1>4 DEF IInv, SendSide

\* The harness does not read what comes after a torn request.
LEMMA SendFailsStep == IInv /\ SendFails => IInv'
<1> SUFFICES ASSUME IInv, SendFails PROVE IInv'
  OBVIOUS
<1>u. /\ call = "send" /\ ~reads /\ call' = "idle" /\ left' = <<>>
      /\ UNCHANGED <<out, filled, consumed, start, writes, inp, taken, then, reads, frames, ended, sent>>
  BY DEF SendFails, stdout
<1>t. TypeOK /\ RecvSide /\ SendSide
  BY DEF IInv
<1>1. TypeOK'
  BY <1>u, <1>t DEF TypeOK
<1>2. RecvSide'
  BY <1>u, <1>t, RecvSideStands
<1>3. SendSide'
  BY <1>u, <1>t DEF SendSide, SendInv, RequestsWhole
<1> QED
  BY <1>1, <1>2, <1>3 DEF IInv

\* Frames lie in what was written before, and nothing was at its end yet.
LEMMA HarnessWritesStep ==
  ASSUME NEW b \in Byte, IInv, HarnessWrites(b)
  PROVE  IInv'
<1>u. /\ writes /\ out' = Append(out, b)
      /\ UNCHANGED <<call, filled, consumed, start, writes, inp, taken, left, then, reads, frames, ended, sent>>
  BY DEF HarnessWrites, stdin
<1>t. TypeOK /\ RecvSide /\ SendSide
  BY DEF IInv
<1>o. /\ out' \in Seq(Byte) /\ Len(out) \in Nat /\ Len(out') = Len(out) + 1
      /\ \A i \in 1 .. Len(out) : out'[i] = out[i]
  BY <1>u, <1>t DEF TypeOK
<1>n. \A i \in 1 .. Len(out) : Newline(i)' <=> Newline(i)
  BY <1>o DEF Newline
<1>p. /\ filled \in 0 .. Len(out) /\ consumed \in 0 .. Len(out) /\ start \in 0 .. consumed
      /\ frames \in Seq(Frame)
  BY <1>t, <1>o DEF TypeOK
<1>1. TypeOK'
  BY <1>u, <1>t, <1>o DEF TypeOK
<1>2. RecvInv'
  <2>1. RecvInv
    BY <1>t DEF RecvSide
  <2> QED
    BY <1>u, <1>o, <1>p, <2>1 DEF RecvInv, Newline
<1>3. FrameInv'
  BY <1>u, <1>t DEF RecvSide, FrameInv
<1>f. LinesFit' => LinesFit
  <2> SUFFICES ASSUME LinesFit', NEW a \in 0 .. (Len(out) - Limit), a = 0 \/ Newline(a)
               PROVE  \E i \in (a + 1) .. (a + Limit) : Newline(i)
    BY DEF LinesFit
  <2>1. a \in 0 .. (Len(out') - Limit) /\ (a = 0 \/ a \in 1 .. Len(out))
    BY <1>o, LimitAssumption
  <2>2. a = 0 \/ Newline(a)'
    BY <1>n, <2>1
  <2>3. PICK i \in (a + 1) .. (a + Limit) : Newline(i)'
    BY <2>1, <2>2 DEF LinesFit, Newline
  <2>4. i \in 1 .. Len(out)
    BY <1>o, <2>1, LimitAssumption
  <2> QED
    BY <1>n, <2>3, <2>4
<1>4. LineInv'
  <2>1. LinesFit' => LineStart(start)
    BY <1>f, <1>t, <1>u DEF RecvSide, LineInv, AtEnd
  <2>2. LineStart(start) => LineStart(start)'
    BY <1>u, <1>n, <1>p DEF LineStart, Newline
  <2> QED
    BY <2>1, <2>2 DEF LineInv
<1>k. \A k \in DOMAIN frames : /\ frames[k].from \in Nat /\ frames[k].to \in 1 .. Len(out)
                               /\ frames[k].from < frames[k].to
  <2>1. \A k \in DOMAIN frames : frames[k].from \in Nat /\ frames[k].to \in Nat
    <3>1. \A k \in DOMAIN frames : frames[k] \in Frame
      BY <1>p
    <3> QED
      BY <3>1 DEF Frame
  <2>2. \A k \in DOMAIN frames : frames[k].to <= start /\ frames[k].from < frames[k].to
    BY <1>t DEF RecvSide, FrameInv, FramesWhole
  <2> QED
    BY <1>o, <1>p, <2>1, <2>2
<1>5. FramesWhole'
  <2>1. ASSUME NEW k \in DOMAIN frames
        PROVE  /\ frames[k].from = IF k = 1 THEN 0 ELSE frames[k - 1].to
               /\ frames[k].from < frames[k].to /\ frames[k].to <= frames[k].from + Limit
               /\ Newline(frames[k].to)' \/ Full(frames[k])
    BY <1>u, <1>t, <1>k, <1>n DEF RecvSide, FramesWhole
  <2>2. ASSUME NEW k \in DOMAIN frames, NEW i \in (frames[k].from + 1) .. (frames[k].to - 1)
        PROVE  ~Newline(i)'
    <3>1. i \in 1 .. Len(out)
      BY <1>k, <1>o
    <3> QED
      BY <1>t, <1>n, <3>1 DEF RecvSide, FramesWhole
  <2>3. start = IF frames = <<>> THEN 0 ELSE frames[Len(frames)].to
    BY <1>t DEF RecvSide, FramesWhole
  <2> QED
    BY <1>u, <2>1, <2>2, <2>3 DEF FramesWhole, Newline, Full
<1>6. ShortLinesWhole'
  <2> SUFFICES ASSUME LinesFit', NEW k \in DOMAIN frames
               PROVE  (frames[k].from = 0 \/ Newline(frames[k].from)') /\ Newline(frames[k].to)'
    BY <1>u DEF ShortLinesWhole, Newline
  <2>1. (frames[k].from = 0 \/ Newline(frames[k].from)) /\ Newline(frames[k].to)
    BY <1>f, <1>t, <1>u DEF RecvSide, ShortLinesWhole
  <2>2. frames[k].to \in 1 .. Len(out) /\ (frames[k].from = 0 \/ frames[k].from \in 1 .. Len(out))
    BY <1>k, <1>o
  <2> QED
    BY <1>u, <1>o, <2>1, <2>2 DEF Newline
<1>7. NoneIsTheEnd'
  BY <1>u, <1>t DEF RecvSide, NoneIsTheEnd
<1>8. SendSide'
  BY <1>u, <1>t, SendSideStands
<1> QED
  BY <1>1, <1>2, <1>3, <1>4, <1>5, <1>6, <1>7, <1>8 DEF IInv, RecvSide

LEMMA HarnessReadsStep == IInv /\ HarnessReads => IInv'
<1> SUFFICES ASSUME IInv, HarnessReads PROVE IInv'
  OBVIOUS
<1>1. TypeOK'
  BY DEF IInv, TypeOK, HarnessReads, stdout
<1>2. RecvSide'
  BY RecvSideStands DEF IInv, HarnessReads, stdout
<1>3. SendSide'
  BY SendSideStands DEF IInv, HarnessReads
<1> QED
  BY <1>1, <1>2, <1>3 DEF IInv

LEMMA CloseStdoutStep == IInv /\ CloseStdout => IInv'
<1> SUFFICES ASSUME IInv, CloseStdout PROVE IInv'
  OBVIOUS
<1>u. /\ writes /\ ~writes' /\ writes' \in BOOLEAN
      /\ UNCHANGED <<call, out, filled, consumed, start, inp, taken, left, then, reads, frames, ended, sent>>
  BY DEF CloseStdout, stdin
<1>t. TypeOK /\ RecvSide /\ SendSide
  BY DEF IInv
<1>1. TypeOK'
  BY <1>u, <1>t DEF TypeOK
<1>2. RecvInv' /\ FrameInv'
  BY <1>u, <1>t DEF RecvSide, RecvInv, FrameInv, Newline
<1>3. LineInv' /\ ShortLinesWhole'
  BY <1>u, <1>t DEF RecvSide, LineInv, ShortLinesWhole, LinesFit, LineStart, AtEnd, Newline
<1>4. FramesWhole'
  BY <1>u, <1>t DEF RecvSide, FramesWhole, Newline, Full
<1>5. NoneIsTheEnd'
  BY <1>u, <1>t DEF RecvSide, NoneIsTheEnd
<1>6. SendSide'
  BY <1>u, <1>t, SendSideStands
<1> QED
  BY <1>1, <1>2, <1>3, <1>4, <1>5, <1>6 DEF IInv, RecvSide

LEMMA CloseStdinStep == IInv /\ CloseStdin => IInv'
<1> SUFFICES ASSUME IInv, CloseStdin PROVE IInv'
  OBVIOUS
<1>1. TypeOK'
  BY DEF IInv, TypeOK, CloseStdin, stdout
<1>2. RecvSide'
  BY RecvSideStands DEF IInv, CloseStdin, stdout
<1>3. SendSide'
  BY SendSideStands DEF IInv, CloseStdin
<1> QED
  BY <1>1, <1>2, <1>3 DEF IInv

LEMMA StutterStep == IInv /\ UNCHANGED vars => IInv'
<1> SUFFICES ASSUME IInv, UNCHANGED vars PROVE IInv'
  OBVIOUS
<1>u. UNCHANGED <<call, out, filled, consumed, start, writes, inp, taken, left, then, reads, frames, ended, sent>>
  BY DEF vars, stdout, stdin
<1>1. TypeOK'
  BY <1>u DEF IInv, TypeOK
<1>2. RecvSide'
  BY <1>u, RecvSideStands DEF IInv
<1>3. SendSide'
  BY <1>u, SendSideStands DEF IInv
<1> QED
  BY <1>1, <1>2, <1>3 DEF IInv

-----------------------------------------------------------------------------
(* Theorems *)

\* The strengthened invariant holds in every state: in each conjunct of Next
\* either recv or send stands still, or the harness only adds to what is there.
THEOREM Invariance == Spec => []IInv
<1>1. IInv /\ [Next]_vars => IInv'
  <2> SUFFICES ASSUME IInv, [Next]_vars PROVE IInv'
    OBVIOUS
  <2>1. CASE RecvBegin
    BY <2>1, RecvBeginStep
  <2>2. CASE RecvStep
    BY <2>2, FillStep, ConsumeStep, RecvFrameStep, RecvNoneStep DEF RecvStep
  <2>3. CASE \E line \in Requests, next \in {"idle", "recv"} : SendBegin(line, next)
    BY <2>3, SendBeginStep
  <2>4. CASE SendStep
    BY <2>4, SendByteStep, SendOkStep, SendFailsStep DEF SendStep
  <2>5. CASE Harness
    BY <2>5, HarnessWritesStep, HarnessReadsStep, CloseStdoutStep, CloseStdinStep DEF Harness
  <2>6. CASE UNCHANGED vars
    BY <2>6, StutterStep
  <2> QED
    BY <2>1, <2>2, <2>3, <2>4, <2>5, <2>6 DEF Next
<1> QED
  BY InitInv, <1>1, PTL DEF Spec

\* The positions of recv and send stay in order and within what was written
\* (mod.rs:306-337).
THEOREM TypeCorrect == Spec => []TypeOK
<1>1. IInv => TypeOK
  BY DEF IInv
<1> QED
  BY Invariance, <1>1, PTL

\* recv cuts the output into adjacent frames, none lost and none seen twice,
\* each up to a newline, the limit or the end (mod.rs:327-337).
THEOREM FramesAreWhole == Spec => []FramesWhole
<1>1. IInv => FramesWhole
  BY DEF IInv, RecvSide
<1> QED
  BY Invariance, <1>1, PTL

\* Within the limit, one call of recv is one line (mod.rs:312-337).
THEOREM ShortLinesAreWhole == Spec => []ShortLinesWhole
<1>1. IInv => ShortLinesWhole
  BY DEF IInv, RecvSide
<1> QED
  BY Invariance, <1>1, PTL

\* recv answers None only when all the output has been returned (mod.rs:335).
THEOREM NoneIsAtTheEnd == Spec => []NoneIsTheEnd
<1>1. IInv => NoneIsTheEnd
  BY DEF IInv, RecvSide
<1> QED
  BY Invariance, <1>1, PTL

\* Requests reach the harness whole, or it stops reading (mod.rs:306-310).
THEOREM RequestsAreWhole == Spec => []RequestsWhole
<1>1. IInv => RequestsWhole
  BY DEF IInv, SendSide
<1> QED
  BY Invariance, <1>1, PTL

\* A frame that is cut neither in front nor behind holds whole characters: what
\* the code reports as an error of encoding is one of the harness, or a cut by
\* the limit (mod.rs:331-335).
THEOREM ErrorsAreOnlyAtCuts == Spec => []ErrorOnlyAtCut
<1>1. IInv => ErrorOnlyAtCut
  <2> SUFFICES ASSUME IInv, WellFormed, NEW k \in DOMAIN frames,
                      ~Full(frames[k]),
                      ~(k > 1 /\ Full(frames[k - 1])),
                      ~(~writes /\ frames[k].to = Len(out) /\ out[Len(out)] = "lead")
               PROVE  Valid(frames[k].from, frames[k].to)
    BY DEF ErrorOnlyAtCut
  <2> DEFINE from == frames[k].from
             to == frames[k].to
  <2>t. TypeOK /\ FramesWhole /\ FrameInv
    BY DEF IInv, RecvSide
  <2>1. /\ from \in Nat /\ to \in 1 .. Len(out) /\ from < to
        /\ Len(out) \in Nat /\ DOMAIN out = 1 .. Len(out)
    <3>1. frames \in Seq(Frame) /\ from \in Nat /\ to \in Nat
      <4>1. frames \in Seq(Frame)
        BY <2>t DEF TypeOK
      <4>2. frames[k] \in Frame
        BY <4>1
      <4> QED
        BY <4>1, <4>2 DEF Frame
    <3>2. from < to /\ to <= start /\ start \in 0 .. Len(out) /\ Len(out) \in Nat
      BY <2>t DEF FramesWhole, FrameInv, TypeOK
    <3> QED
      BY <2>t, <3>1, <3>2 DEF TypeOK
  <2>2. Newline(to) \/ (~writes /\ to = Len(out))
    BY <2>t DEF FramesWhole
  <2>3. out[to] # "lead"
    BY <2>2 DEF Newline
  <2>4. from = 0 \/ Newline(from) \/ from = Len(out)
    <3>1. CASE k = 1
      BY <3>1, <2>t DEF FramesWhole
    <3>2. CASE k # 1
      <4>1. k \in 1 .. Len(frames) /\ k - 1 \in DOMAIN frames /\ k > 1
        BY <3>2, <2>t DEF TypeOK
      <4>2. from = frames[k - 1].to
        BY <3>2, <2>t DEF FramesWhole
      <4>3. Newline(frames[k - 1].to) \/ (~writes /\ frames[k - 1].to = Len(out))
        BY <4>1, <2>t DEF FramesWhole
      <4> QED
        BY <4>2, <4>3
    <3> QED
      BY <3>1, <3>2
  <2>5. from = 0 \/ out[from] = "newline"
    BY <2>1, <2>4 DEF Newline
  <2> HIDE DEF from, to
  <2>6. ASSUME NEW i \in (from + 1) .. to, out[i] = "lead" PROVE i < to /\ out[i + 1] = "trail"
    <3>1. i # to /\ i < to /\ i \in 1 .. Len(out) /\ i # Len(out)
      <4>1. i # to
        BY <2>3, <2>6
      <4>2. i \in Nat /\ i >= from + 1 /\ i <= to
        BY <2>1
      <4>3. from \in Nat /\ to \in Nat /\ Len(out) \in Nat /\ to <= Len(out)
        BY <2>1
      <4>4. i < to /\ i >= 1 /\ i < Len(out)
        BY <4>1, <4>2, <4>3
      <4> QED
        BY <4>1, <4>2, <4>3, <4>4
    <3> QED
      BY <2>1, <2>6, <3>1 DEF WellFormed
  <2>7. ASSUME NEW i \in (from + 1) .. to, out[i] = "trail" PROVE i > from + 1 /\ out[i - 1] = "lead"
    <3>1. i \in 1 .. Len(out)
      BY <2>1
    <3>2. i > 1 /\ out[i - 1] = "lead"
      BY <2>1, <2>7, <3>1 DEF WellFormed
    <3>3. i # from + 1
      BY <2>1, <2>5, <3>2
    <3> QED
      BY <2>1, <3>2, <3>3
  <2> QED
    BY <2>6, <2>7 DEF Valid, from, to
<1> QED
  BY Invariance, <1>1, PTL
=============================================================================
