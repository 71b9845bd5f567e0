----------------------------- MODULE ChannelProofs -----------------------------
(***************************************************************************)
(* The receiver's place in the sender's stream, and its deadlines, for     *)
(* every header size, every frame a sender may choose, every budget and    *)
(* slice, however the network cuts the stream up; and the two ends of the  *)
(* deployer's SSH session and the verdicts on the commands it runs, for    *)
(* every host key, every known_hosts and every sequence of key exchanges   *)
(* and operations.                                                         *)
(***************************************************************************)
EXTENDS FrameChannel, SshSession, SequenceTheorems, TLAPS

TimeTypes ==
    /\ pc \in {"idle", "reading", "polling"} /\ mode \in Modes
    /\ left \in 0..Slice /\ budget \in 0..BodyBudget /\ age \in Nat /\ overrun \in Nat

\* The budget runs from the frame's first byte.
BudgetInv == read # <<>> /\ budget > 0 => age + budget <= BodyBudget

\* A call outlasts its deadline only for a frame that has begun, on its budget.
OverrunInv ==
    /\ Punctual
    /\ pc # "idle" /\ mode = "receive" =>
          /\ read = <<>> => overrun = 0
          /\ read # <<>> => overrun + budget <= BodyBudget

\* A poll began within the frame's budget, and lasts for the rest of it or
\* until the caller's deadline.
StallInv == pc = "polling" /\ read # <<>> => age + left < BodyBudget + Slice

TimeInv == TimeTypes /\ BudgetInv /\ OverrunInv /\ StallInv

--------------------------------------------------------------------------------
(* The stream: what has been read of the frame in hand, and what waits in  *)
(* the socket behind it.                                                   *)

Verdicts == {"none", "badHeader", "badBody", "good"}
Bytes    == [conn : Nat, frame : Nat, off : Nat, len : Nat, verdict : Verdicts]
Frame    == [len : Nat, verdict : Verdicts, sent : Nat]
Stream   == read \o socket

StreamTypes ==
    /\ read \in Seq(Bytes) /\ socket \in Seq(Bytes) /\ delivered \in Seq(Nat \X Nat)
    /\ conn \in Nat /\ started \in Nat /\ peerOpen \in BOOLEAN
    /\ sending \in Frame

Size(b) == HeaderSize + b.len

\* b is the k-th byte of the frame c belongs to.
OfFrame(b, c, k) ==
    /\ b.conn = c.conn /\ b.frame = c.frame /\ b.off = k
    /\ b.len = c.len /\ b.verdict = c.verdict

\* From each first byte of a frame on, the bytes of s are those of the frame,
\* all of them from one connection, and then those of the next frame.
Framed(s, c) ==
    \A i \in 1 .. Len(s) : s[i].off = 0 =>
       /\ s[i].conn = c
       /\ \A j \in i .. Len(s) : j < i + Size(s[i]) => OfFrame(s[j], s[i], j - i)
       /\ i + Size(s[i]) <= Len(s) =>
             s[i + Size(s[i])].off = 0 /\ s[i + Size(s[i])].frame = s[i].frame + 1

\* The frame of a sender's next byte: f is the one it is writing, the k-th.
NextFrame(f, k) == IF f = NoFrame THEN k + 1 ELSE k

\* The sender's next byte goes on where s ends.
Continues(s, f, k) ==
    \A i \in 1 .. Len(s) : s[i].off = 0 =>
       /\ Len(s) + 1 < i + Size(s[i]) =>
             /\ f # NoFrame /\ f.sent = Len(s) + 1 - i
             /\ s[i].frame = k /\ s[i].len = f.len /\ s[i].verdict = f.verdict
       /\ Len(s) + 1 = i + Size(s[i]) => f.sent = 0 /\ NextFrame(f, k) = s[i].frame + 1

\* The frame after the last one returned on this connection.
Expected ==
    IF delivered # <<>> /\ delivered[Len(delivered)][1] = conn
    THEN delivered[Len(delivered)][2] + 1 ELSE 1

SenderInv ==
    /\ sending # NoFrame => peerOpen /\ sending.sent < HeaderSize + sending.len
    /\ peerOpen => Continues(Stream, sending, started)
    /\ peerOpen /\ Stream = <<>> => sending.sent = 0 /\ NextFrame(sending, started) = Expected

ReaderInv ==
    /\ Framed(Stream, conn)
    /\ Stream # <<>> => Stream[1].off = 0 /\ Stream[1].frame = Expected
    /\ read = <<>> => header = NoHeader
    /\ read # <<>> /\ header = NoHeader => Len(read) < HeaderSize
    /\ read # <<>> /\ header # NoHeader =>
          /\ header = [len |-> read[1].len, verdict |-> read[1].verdict]
          /\ Len(read) < Size(read[1])

OrderInv ==
    /\ DeliveredInOrder
    /\ \A k \in 1 .. Len(delivered) : delivered[k][1] <= conn

StreamInv == StreamTypes /\ SenderInv /\ ReaderInv /\ OrderInv
--------------------------------------------------------------------------------
(* Deadlines.                                                              *)

LEMMA Bounds ==
    /\ BodyBudget \in Nat /\ BodyBudget > 0 /\ Slice \in Nat /\ Slice > 0
    /\ HeaderSize \in Nat /\ HeaderSize > 0 /\ 0 \in 0..BodyBudget /\ Slice \in 0..Slice
    /\ 0 \in 0..Slice /\ BodyBudget \in 0..BodyBudget
  BY FrameChannelAssumption

LEMMA LessFits ==
    ASSUME NEW a \in Nat, NEW b \in Nat, NEW c \in Nat, NEW d \in Nat, a + b <= c, d <= b
    PROVE  a + d <= c
  OBVIOUS

\* With no partial frame and no call there is nothing to be late for.
LEMMA NoPartialNotLate ==
    ASSUME TimeInv, ResetPartial, pc' = "idle", UNCHANGED <<mode, left, overrun>>
    PROVE  TimeInv'
  <1>1. TimeTypes'
    BY Bounds DEF TimeInv, TimeTypes, ResetPartial
  <1>2. BudgetInv' /\ OverrunInv' /\ StallInv'
    BY DEF TimeInv, BudgetInv, OverrunInv, Punctual, StallInv, ResetPartial
  <1> QED  BY <1>1, <1>2 DEF TimeInv

\* Nor is a step late that only moves the call on or ends it.
LEMMA StepNotLate ==
    ASSUME TimeInv, UNCHANGED <<mode, left, budget, age, overrun, read>>,
           pc' \in {pc, "idle", "reading"}, pc = "idle" => pc' = "idle"
    PROVE  TimeInv'
  <1>1. TimeTypes'
    BY DEF TimeInv, TimeTypes
  <1>2. BudgetInv' /\ OverrunInv' /\ StallInv'
    BY DEF TimeInv, BudgetInv, OverrunInv, Punctual, StallInv
  <1> QED  BY <1>1, <1>2 DEF TimeInv

LEMMA ReadMoreNotLate ==
    ASSUME TimeInv, pc = "reading", NEW bytes, NEW h, ReadMore(bytes, h),
           read # <<>> => bytes # <<>>
    PROVE  TimeInv'
  <1>1. /\ read' = bytes /\ UNCHANGED <<pc, mode, left, overrun>>
        /\ read = <<>> => budget' = BodyBudget /\ age' = 0
        /\ read # <<>> => budget' = budget /\ age' = age
    BY DEF ReadMore, Budget
  <1>2. TimeTypes'
    BY <1>1, Bounds DEF TimeInv, TimeTypes
  <1>3. BudgetInv'
    BY <1>1, Bounds DEF TimeInv, BudgetInv
  <1>4. OverrunInv'
    <2>1. Punctual'
      BY <1>1 DEF TimeInv, OverrunInv, Punctual
    <2>2. CASE read = <<>>
      BY <1>1, <2>1, <2>2, Bounds DEF TimeInv, OverrunInv
    <2>3. CASE read # <<>>
      BY <1>1, <2>1, <2>3 DEF TimeInv, OverrunInv
    <2> QED  BY <2>2, <2>3
  <1>5. StallInv'
    BY <1>1 DEF StallInv
  <1> QED  BY <1>2, <1>3, <1>4, <1>5 DEF TimeInv

\* The wait before the call's deadline, or for a frame within its budget.
LEMMA UntilWaits ==
    ASSUME TimeTypes, Until > 0
    PROVE  left > 0 \/ (mode = "receive" /\ read # <<>> /\ budget > 0)
  BY Bounds DEF TimeTypes, Until

LEMMA TickNotLate ==
    ASSUME TimeInv, Tick
    PROVE  TimeInv'
  <1>1. /\ UNCHANGED <<pc, mode, read>>
        /\ left > 0 => left' = left - 1
        /\ left = 0 => left' = 0
        /\ budget > 0 => budget' = budget - 1
        /\ budget = 0 => budget' = 0
        /\ read # <<>> => age' = age + 1
        /\ read = <<>> => age' = 0
        /\ pc = "polling" /\ left = 0 => overrun' = overrun + 1
        /\ ~(pc = "polling" /\ left = 0) => overrun' = overrun
    BY DEF Tick, Less, TimeInv, TimeTypes
  <1>t. /\ left \in Nat /\ left <= Slice /\ budget \in Nat /\ budget <= BodyBudget /\ age \in Nat
        /\ overrun \in Nat /\ left' \in Nat /\ budget' \in Nat /\ age' \in Nat /\ overrun' \in Nat
    BY <1>1, Bounds DEF TimeInv, TimeTypes
  <1>2. pc = "polling" /\ left = 0 => mode = "receive" /\ read # <<>> /\ budget > 0
    BY <1>t, UntilWaits DEF Tick, TimeInv
  <1>3. TimeTypes'
    BY <1>1, <1>t, Bounds DEF TimeInv, TimeTypes
  <1>4. BudgetInv'
    <2> SUFFICES ASSUME read # <<>>, budget' > 0 PROVE age' + budget' <= BodyBudget
      BY <1>1 DEF BudgetInv
    <2>1. budget > 0
      BY <1>1, <1>t
    <2>2. age + budget <= BodyBudget
      BY <2>1 DEF TimeInv, BudgetInv
    <2> QED  BY <1>1, <1>t, <2>1, <2>2, Bounds
  <1>5. OverrunInv'
    <2>1. CASE pc = "polling" /\ left = 0
      BY <1>1, <1>2, <1>t, <2>1, Bounds DEF TimeInv, OverrunInv, Punctual
    <2>2. CASE ~(pc = "polling" /\ left = 0)
      <3>1. overrun' = overrun /\ budget' <= budget
        BY <1>1, <1>t, <2>2
      <3>2. Punctual'
        BY <1>1, <3>1 DEF TimeInv, OverrunInv, Punctual
      <3>3. ASSUME pc # "idle", mode = "receive", read # <<>>
            PROVE  overrun' + budget' <= BodyBudget
        <4>1. overrun + budget <= BodyBudget
          BY <3>3 DEF TimeInv, OverrunInv
        <4>2. /\ overrun \in Nat /\ budget \in Nat /\ budget' \in Nat /\ overrun' = overrun
              /\ budget' <= budget /\ BodyBudget \in Nat
          BY <1>t, <3>1, Bounds
        <4>3. overrun + budget' <= BodyBudget
          BY <4>1, <4>2, LessFits
        <4> QED  BY <4>2, <4>3
      <3> QED  BY <1>1, <3>1, <3>2, <3>3 DEF TimeInv, OverrunInv
    <2> QED  BY <2>1, <2>2
  <1>6. StallInv'
    <2> SUFFICES ASSUME pc = "polling", read # <<>> PROVE age' + left' < BodyBudget + Slice
      BY <1>1 DEF StallInv
    <2>1. CASE left > 0
      BY <1>1, <1>t, <2>1, Bounds DEF TimeInv, StallInv
    <2>2. CASE left = 0
      BY <1>1, <1>2, <1>t, <2>2, Bounds DEF TimeInv, BudgetInv
    <2> QED  BY <1>t, <2>1, <2>2
  <1> QED  BY <1>3, <1>4, <1>5, <1>6 DEF TimeInv

\* A call starts within its deadline ...
LEMMA CallNotLate ==
    ASSUME TimeInv, NEW m \in Modes, Call(m)
    PROVE  TimeInv'
  <1>1. /\ mode' = m /\ overrun' = 0 /\ pc' \in {"reading", "idle"}
        /\ (left' = 0 \/ left' = Slice) /\ UNCHANGED <<read, budget, age>>
    BY DEF Call, partial
  <1>2. TimeTypes'
    BY <1>1, Bounds DEF TimeInv, TimeTypes
  <1>3. BudgetInv' /\ StallInv'
    BY <1>1 DEF TimeInv, BudgetInv, StallInv
  <1>4. OverrunInv'
    <2>1. 0 + budget <= BodyBudget /\ 0 <= BodyBudget
      BY Bounds DEF TimeInv, TimeTypes
    <2> QED  BY <1>1, <2>1 DEF OverrunInv, Punctual
  <1> QED  BY <1>2, <1>3, <1>4 DEF TimeInv

\* ... and a poll within the budget of the frame that has begun.
LEMMA PollNotLate ==
    ASSUME TimeInv, pc = "reading", pc' = "polling", read = <<>> \/ budget > 0,
           UNCHANGED <<mode, left, budget, age, overrun, read>>
    PROVE  TimeInv'
  <1>1. TimeTypes'
    BY DEF TimeInv, TimeTypes
  <1>2. BudgetInv' /\ OverrunInv'
    BY DEF TimeInv, BudgetInv, OverrunInv, Punctual
  <1>3. StallInv'
    <2> SUFFICES ASSUME read # <<>> PROVE age + left < BodyBudget + Slice
      BY DEF StallInv
    <2>1. age + budget <= BodyBudget /\ budget > 0
      BY DEF TimeInv, BudgetInv
    <2>2. age \in Nat /\ budget \in Nat /\ left \in Nat /\ left <= Slice
      BY Bounds DEF TimeInv, TimeTypes
    <2> QED  BY <2>1, <2>2, Bounds
  <1> QED  BY <1>1, <1>2, <1>3 DEF TimeInv
--------------------------------------------------------------------------------
(* Sequences of bytes.                                                     *)

LEMMA SizeType == ASSUME NEW b \in Bytes PROVE Size(b) \in Nat /\ Size(b) > 0 /\ HeaderSize <= Size(b)
  BY Bounds DEF Bytes, Size

\* What is left of a stream that ends early is still in frames ...
LEMMA FramedPrefix ==
    ASSUME NEW c, NEW s \in Seq(Bytes), NEW t \in Seq(Bytes), Framed(s, c), Len(t) <= Len(s),
           \A i \in 1 .. Len(t) : t[i] = s[i]
    PROVE  Framed(t, c)
  <1> SUFFICES ASSUME NEW i \in 1 .. Len(t), t[i].off = 0
               PROVE  /\ t[i].conn = c
                      /\ \A j \in i .. Len(t) : j < i + Size(t[i]) => OfFrame(t[j], t[i], j - i)
                      /\ i + Size(t[i]) <= Len(t) =>
                            t[i + Size(t[i])].off = 0 /\ t[i + Size(t[i])].frame = t[i].frame + 1
    BY DEF Framed
  <1>1. /\ i \in 1 .. Len(s) /\ s[i] = t[i] /\ Len(s) \in Nat /\ Len(t) \in Nat
        /\ Size(t[i]) \in Nat /\ Size(t[i]) > 0
    BY SizeType
  <1>2. /\ s[i].conn = c
        /\ \A j \in i .. Len(s) : j < i + Size(s[i]) => OfFrame(s[j], s[i], j - i)
        /\ i + Size(s[i]) <= Len(s) =>
              s[i + Size(s[i])].off = 0 /\ s[i + Size(s[i])].frame = s[i].frame + 1
    BY <1>1 DEF Framed
  <1>3. \A j \in i .. Len(t) : j < i + Size(t[i]) => OfFrame(t[j], t[i], j - i)
    BY <1>1, <1>2
  <1>4. ASSUME i + Size(t[i]) <= Len(t)
        PROVE  t[i + Size(t[i])].off = 0 /\ t[i + Size(t[i])].frame = t[i].frame + 1
    <2>1. i + Size(t[i]) \in 1 .. Len(t) /\ i + Size(t[i]) <= Len(s)
      BY <1>1, <1>4
    <2>2. t[i + Size(t[i])] = s[i + Size(t[i])]
      BY <2>1
    <2> QED  BY <1>1, <1>2, <2>1, <2>2
  <1> QED  BY <1>1, <1>2, <1>3, <1>4

\* ... and so is one whose first bytes are taken away, and the sender's next
\* byte goes on where it ends.
LEMMA FramedDrop ==
    ASSUME NEW c, NEW f, NEW k, NEW s \in Seq(Bytes), NEW t \in Seq(Bytes), Framed(s, c),
           NEW n \in Nat, Len(t) = Len(s) - n, \A i \in 1 .. Len(t) : t[i] = s[i + n]
    PROVE  Framed(t, c) /\ (Continues(s, f, k) => Continues(t, f, k))
  <1>1. Framed(t, c)
    <2> SUFFICES ASSUME NEW i \in 1 .. Len(t), t[i].off = 0
                 PROVE  /\ t[i].conn = c
                        /\ \A j \in i .. Len(t) : j < i + Size(t[i]) => OfFrame(t[j], t[i], j - i)
                        /\ i + Size(t[i]) <= Len(t) =>
                              t[i + Size(t[i])].off = 0 /\ t[i + Size(t[i])].frame = t[i].frame + 1
      BY DEF Framed
    <2>1. /\ i + n \in 1 .. Len(s) /\ s[i + n] = t[i] /\ Len(s) \in Nat /\ Len(t) \in Nat
          /\ Size(t[i]) \in Nat /\ Size(t[i]) > 0
      <3>1. Len(s) \in Nat /\ Len(t) \in Nat /\ t[i] \in Bytes
        OBVIOUS
      <3>2. i + n \in 1 .. Len(s)
        BY <3>1
      <3>3. Size(t[i]) \in Nat /\ Size(t[i]) > 0
        BY <3>1, SizeType
      <3> QED  BY <3>1, <3>2, <3>3
    <2>2. /\ t[i].conn = c
          /\ \A j \in i + n .. Len(s) : j < i + n + Size(t[i]) => OfFrame(s[j], t[i], j - (i + n))
          /\ i + n + Size(t[i]) <= Len(s) =>
                s[i + n + Size(t[i])].off = 0 /\ s[i + n + Size(t[i])].frame = t[i].frame + 1
      BY <2>1 DEF Framed
    <2>3. ASSUME NEW j \in i .. Len(t), j < i + Size(t[i]) PROVE OfFrame(t[j], t[i], j - i)
      <3>1. j + n \in i + n .. Len(s) /\ j + n < i + n + Size(t[i]) /\ j + n - (i + n) = j - i
        BY <2>1, <2>3
      <3>2. t[j] = s[j + n]
        BY <2>1, <2>3
      <3>3. OfFrame(s[j + n], t[i], j + n - (i + n))
        BY <2>2, <3>1
      <3> QED  BY <3>1, <3>2, <3>3
    <2>4. ASSUME i + Size(t[i]) <= Len(t)
          PROVE  t[i + Size(t[i])].off = 0 /\ t[i + Size(t[i])].frame = t[i].frame + 1
      <3>1. i + Size(t[i]) \in 1 .. Len(t) /\ i + n + Size(t[i]) <= Len(s)
        BY SMTT(30), <2>1, <2>4
      <3>2. t[i + Size(t[i])] = s[i + Size(t[i]) + n]
        BY <3>1
      <3>3. i + Size(t[i]) + n = i + n + Size(t[i])
        BY <2>1
      <3> QED  BY <2>2, <3>1, <3>2, <3>3
    <2> QED  BY <2>2, <2>3, <2>4
  <1>2. ASSUME Continues(s, f, k) PROVE Continues(t, f, k)
    <2> SUFFICES ASSUME NEW i \in 1 .. Len(t), t[i].off = 0
                 PROVE  /\ Len(t) + 1 < i + Size(t[i]) =>
                             /\ f # NoFrame /\ f.sent = Len(t) + 1 - i
                             /\ t[i].frame = k /\ t[i].len = f.len /\ t[i].verdict = f.verdict
                        /\ Len(t) + 1 = i + Size(t[i]) =>
                             f.sent = 0 /\ NextFrame(f, k) = t[i].frame + 1
      BY DEF Continues
    <2>1. /\ i + n \in 1 .. Len(s) /\ s[i + n] = t[i] /\ Len(s) \in Nat /\ Len(t) \in Nat
          /\ Size(t[i]) \in Nat
      <3>1. i \in Nat /\ Len(s) \in Nat /\ Len(t) \in Nat /\ t[i] \in Bytes
        OBVIOUS
      <3>2. i + n \in 1 .. Len(s)
        BY <3>1
      <3> QED  BY <3>1, <3>2, SizeType
    <2>2. /\ Len(s) + 1 < i + n + Size(t[i]) =>
               /\ f # NoFrame /\ f.sent = Len(s) + 1 - (i + n)
               /\ t[i].frame = k /\ t[i].len = f.len /\ t[i].verdict = f.verdict
          /\ Len(s) + 1 = i + n + Size(t[i]) =>
               f.sent = 0 /\ NextFrame(f, k) = t[i].frame + 1
      BY SMTT(30), <1>2, <2>1 DEF Continues
    <2>3. /\ Len(s) + 1 - (i + n) = Len(t) + 1 - i
          /\ Len(t) + 1 < i + Size(t[i]) => Len(s) + 1 < i + n + Size(t[i])
          /\ Len(t) + 1 = i + Size(t[i]) => Len(s) + 1 = i + n + Size(t[i])
      <3>1. i \in Nat
        OBVIOUS
      <3>2. \A d \in Nat : /\ Len(t) + 1 < i + d => Len(s) + 1 < i + n + d
                           /\ Len(t) + 1 = i + d => Len(s) + 1 = i + n + d
        BY <2>1, <3>1
      <3>3. Len(s) + 1 - (i + n) = Len(t) + 1 - i
        BY <2>1, <3>1
      <3> QED  BY <2>1, <3>2, <3>3
    <2> QED  BY <2>2, <2>3
  <1> QED  BY <1>1, <1>2

\* The byte at offset x of frame k of connection c, when the sender writes f.
ByteOf(c, k, f, x) ==
    [conn |-> c, frame |-> k, off |-> x, len |-> f.len, verdict |-> f.verdict]

\* The frame in the sender's hand once n more bytes of it are out.
Advanced(f, n) ==
    IF f.sent + n = HeaderSize + f.len THEN NoFrame ELSE [f EXCEPT !.sent = @ + n]

LEMMA AdvancedFields ==
    ASSUME NEW f \in Frame, NEW n \in Nat \ {0}, f.sent + n <= Size(f)
    PROVE  /\ f.sent + n = Size(f) => Advanced(f, n) = NoFrame /\ Advanced(f, n).sent = 0
           /\ f.sent + n < Size(f) =>
                 /\ Advanced(f, n) # NoFrame /\ Advanced(f, n).sent = f.sent + n
                 /\ Advanced(f, n).len = f.len /\ Advanced(f, n).verdict = f.verdict
           /\ Advanced(f, n) \in Frame
  BY Bounds DEF Frame, Advanced, Size, NoFrame, Verdicts

\* The next bytes of the sender's frame keep the stream in frames ...
LEMMA FramedArrive ==
    ASSUME NEW c, NEW k \in Nat, NEW f \in Frame, NEW n \in Nat \ {0}, f # NoFrame,
           f.sent + n <= Size(f), NEW s \in Seq(Bytes), NEW t \in Seq(Bytes),
           Framed(s, c), Continues(s, f, k), Len(t) = Len(s) + n,
           \A i \in 1 .. Len(s) : t[i] = s[i],
           \A i \in Len(s) + 1 .. Len(t) : t[i] = ByteOf(c, k, f, f.sent + i - Len(s) - 1)
    PROVE  Framed(t, c)
  <1> SUFFICES ASSUME NEW i \in 1 .. Len(t), t[i].off = 0
               PROVE  /\ t[i].conn = c
                      /\ \A j \in i .. Len(t) : j < i + Size(t[i]) => OfFrame(t[j], t[i], j - i)
                      /\ i + Size(t[i]) <= Len(t) =>
                            t[i + Size(t[i])].off = 0 /\ t[i + Size(t[i])].frame = t[i].frame + 1
    BY DEF Framed
  <1>0. /\ Len(s) \in Nat /\ Len(t) \in Nat /\ i \in Nat /\ i > 0 /\ i <= Len(t)
        /\ t[i] \in Bytes
    OBVIOUS
  <1>1. /\ Size(t[i]) \in Nat /\ Size(t[i]) > 0 /\ f.sent \in Nat /\ f.len \in Nat
        /\ Size(f) \in Nat /\ n \in Nat /\ n > 0
    BY <1>0, SizeType, Bounds DEF Frame, Size
  <1>2. CASE i <= Len(s)
    <2>1. i \in 1 .. Len(s) /\ s[i] = t[i] /\ s[i].off = 0
      BY <1>0, <1>2
    <2>2. /\ t[i].conn = c
          /\ \A j \in i .. Len(s) : j < i + Size(t[i]) => OfFrame(s[j], t[i], j - i)
          /\ i + Size(t[i]) <= Len(s) =>
                s[i + Size(t[i])].off = 0 /\ s[i + Size(t[i])].frame = t[i].frame + 1
      BY <2>1 DEF Framed
    <2>3. /\ Len(s) + 1 < i + Size(t[i]) =>
                /\ f.sent = Len(s) + 1 - i /\ t[i].frame = k
                /\ t[i].len = f.len /\ t[i].verdict = f.verdict
          /\ Len(s) + 1 = i + Size(t[i]) => f.sent = 0 /\ k = t[i].frame + 1
      BY <2>1 DEF Continues, NextFrame
    <2>4. ASSUME NEW j \in i .. Len(t), j < i + Size(t[i]) PROVE OfFrame(t[j], t[i], j - i)
      <3>1. CASE j <= Len(s)
        <4>1. j \in i .. Len(s) /\ j \in 1 .. Len(s)
          BY <1>0, <3>1
        <4> QED  BY <2>2, <2>4, <4>1
      <3>2. CASE j > Len(s)
        <4>1. Len(s) + 1 < i + Size(t[i]) \/ Len(s) + 1 = j
          BY <1>0, <1>1, <2>4, <3>2
        <4>2. Len(s) + 1 < i + Size(t[i]) /\ j \in Len(s) + 1 .. Len(t)
          BY <1>0, <1>1, <2>4, <3>2, <4>1
        <4>3. f.sent + j - Len(s) - 1 = j - i
          BY <1>0, <1>1, <2>3, <4>2
        <4>4. t[j] = ByteOf(c, k, f, j - i)
          BY <4>2, <4>3
        <4> QED  BY <2>2, <2>3, <4>2, <4>4 DEF OfFrame, ByteOf
      <3> QED  BY <1>0, <3>1, <3>2
    <2>5. ASSUME i + Size(t[i]) <= Len(t)
          PROVE  t[i + Size(t[i])].off = 0 /\ t[i + Size(t[i])].frame = t[i].frame + 1
      <3>1. CASE i + Size(t[i]) <= Len(s)
        <4>1. i + Size(t[i]) \in 1 .. Len(s)
          BY <1>0, <1>1, <3>1
        <4>2. t[i + Size(t[i])] = s[i + Size(t[i])]
          BY <4>1
        <4> QED  BY <2>2, <3>1, <4>2
      <3>2. CASE i + Size(t[i]) = Len(s) + 1
        <4>1. f.sent = 0 /\ k = t[i].frame + 1
          BY <2>3, <3>2
        <4>2. Len(s) + 1 \in Len(s) + 1 .. Len(t) /\ f.sent + (Len(s) + 1) - Len(s) - 1 = 0
          BY <1>0, <1>1, <4>1
        <4>3. t[Len(s) + 1] = ByteOf(c, k, f, 0)
          BY <4>2
        <4> QED  BY <3>2, <4>1, <4>3 DEF ByteOf
      <3>3. CASE Len(s) + 1 < i + Size(t[i])
        <4>1. f.sent = Len(s) + 1 - i /\ Size(f) = Size(t[i])
          BY <2>3, <3>3 DEF Size
        <4>2. FALSE
          BY <1>0, <1>1, <2>5, <4>1
        <4> QED  BY <4>2
      <3> QED  BY SMTT(30), <1>0, <1>1, <3>1, <3>2, <3>3
    <2> QED  BY <2>2, <2>4, <2>5
  <1>3. CASE i > Len(s)
    <2>1. i \in Len(s) + 1 .. Len(t)
      BY <1>0, <1>3
    <2>2. t[i] = ByteOf(c, k, f, f.sent + i - Len(s) - 1)
      BY <2>1
    <2>3. f.sent + i - Len(s) - 1 = 0 /\ t[i].conn = c /\ Size(t[i]) = Size(f)
      BY <2>2 DEF ByteOf, Size
    <2>4. f.sent = 0 /\ i = Len(s) + 1
      <3>1. \A x \in Nat : x + i - Len(s) - 1 = 0 => x = 0 /\ i = Len(s) + 1
        BY <1>0, <1>3
      <3> QED  BY <1>1, <2>3, <3>1
    <2>5. ASSUME NEW j \in i .. Len(t) PROVE OfFrame(t[j], t[i], j - i)
      <3>1. j \in Len(s) + 1 .. Len(t) /\ f.sent + j - Len(s) - 1 = j - i
        BY <1>0, <2>4
      <3>2. t[j] = ByteOf(c, k, f, j - i)
        BY <3>1
      <3> QED  BY <2>2, <3>2 DEF OfFrame, ByteOf
    <2>6. ~(i + Size(t[i]) <= Len(t))
      BY <1>0, <1>1, <2>3, <2>4
    <2> QED  BY <2>3, <2>5, <2>6
  <1> QED  BY <1>0, <1>2, <1>3

\* ... and the rest of the frame goes on where they end.
LEMMA ContinuesArrive ==
    ASSUME NEW c, NEW k \in Nat, NEW f \in Frame, NEW n \in Nat \ {0}, f # NoFrame,
           f.sent + n <= Size(f), NEW s \in Seq(Bytes), NEW t \in Seq(Bytes),
           Continues(s, f, k), Len(t) = Len(s) + n,
           \A i \in 1 .. Len(s) : t[i] = s[i],
           \A i \in Len(s) + 1 .. Len(t) : t[i] = ByteOf(c, k, f, f.sent + i - Len(s) - 1)
    PROVE  Continues(t, Advanced(f, n), k)
  <1> DEFINE g == Advanced(f, n)
  <1> SUFFICES ASSUME NEW i \in 1 .. Len(t), t[i].off = 0
               PROVE  /\ Len(t) + 1 < i + Size(t[i]) =>
                           /\ g # NoFrame /\ g.sent = Len(t) + 1 - i
                           /\ t[i].frame = k /\ t[i].len = g.len /\ t[i].verdict = g.verdict
                      /\ Len(t) + 1 = i + Size(t[i]) =>
                           g.sent = 0 /\ NextFrame(g, k) = t[i].frame + 1
    BY DEF Continues
  <1>0. /\ Len(s) \in Nat /\ Len(t) \in Nat /\ i \in Nat /\ i > 0 /\ i <= Len(t)
        /\ t[i] \in Bytes
    OBVIOUS
  <1>1. /\ Size(t[i]) \in Nat /\ Size(t[i]) > 0 /\ f.sent \in Nat /\ f.len \in Nat
        /\ Size(f) \in Nat /\ n \in Nat /\ n > 0
    BY <1>0, SizeType, Bounds DEF Frame, Size
  <1>2. /\ f.sent + n = Size(f) => g = NoFrame /\ g.sent = 0
        /\ f.sent + n < Size(f) =>
              g # NoFrame /\ g.sent = f.sent + n /\ g.len = f.len /\ g.verdict = f.verdict
    BY AdvancedFields
  <1> HIDE DEF g
  <1>3. CASE Len(s) + 1 < i + Size(t[i]) /\ i <= Len(s)
    <2>1. i \in 1 .. Len(s) /\ s[i] = t[i] /\ s[i].off = 0
      BY <1>0, <1>3
    <2>2. /\ f.sent = Len(s) + 1 - i /\ t[i].frame = k
          /\ t[i].len = f.len /\ t[i].verdict = f.verdict
      BY <1>3, <2>1 DEF Continues
    <2>3. Size(t[i]) = Size(f) /\ f.sent + n = Len(t) + 1 - i
      BY <1>0, <1>1, <2>2 DEF Size
    <2>4. /\ Len(t) + 1 < i + Size(t[i]) => f.sent + n < Size(f)
          /\ Len(t) + 1 = i + Size(t[i]) => f.sent + n = Size(f)
      <3>1. \A x, y, b \in Nat : /\ x + n = b + 1 - i /\ b + 1 < i + y => x + n < y
                                 /\ x + n = b + 1 - i /\ b + 1 = i + y => x + n = y
        BY <1>0, <1>1
      <3>2. ASSUME Len(t) + 1 < i + Size(f) PROVE f.sent + n < Size(f)
        BY <1>0, <1>1, <2>3, <3>1, <3>2
      <3>3. ASSUME Len(t) + 1 = i + Size(f) PROVE f.sent + n = Size(f)
        BY <1>0, <1>1, <2>3, <3>1, <3>3
      <3> QED  BY <2>3, <3>2, <3>3
    <2> QED  BY <1>2, <2>2, <2>3, <2>4 DEF NextFrame
  <1>4. CASE i > Len(s)
    <2>1. i \in Len(s) + 1 .. Len(t)
      BY <1>0, <1>4
    <2>2. t[i] = ByteOf(c, k, f, f.sent + i - Len(s) - 1)
      BY <2>1
    <2>3. /\ f.sent + i - Len(s) - 1 = 0 /\ Size(t[i]) = Size(f)
          /\ t[i].frame = k /\ t[i].len = f.len /\ t[i].verdict = f.verdict
      BY <2>2 DEF ByteOf, Size
    <2>4. f.sent + n = Len(t) + 1 - i
      <3>1. \A x, a \in Nat : x + i - a - 1 = 0 => x + n = a + n + 1 - i
        BY <1>0, <1>1
      <3>2. f.sent + n = Len(s) + n + 1 - i
        BY <1>0, <1>1, <2>3, <3>1
      <3> QED  BY <3>2
    <2>5. /\ Len(t) + 1 < i + Size(t[i]) => f.sent + n < Size(f)
          /\ Len(t) + 1 = i + Size(t[i]) => f.sent + n = Size(f)
      <3>1. \A x, y, b \in Nat : /\ x + n = b + 1 - i /\ b + 1 < i + y => x + n < y
                                 /\ x + n = b + 1 - i /\ b + 1 = i + y => x + n = y
        BY <1>0, <1>1
      <3> QED  BY SMTT(30), <1>0, <1>1, <2>3, <2>4, <3>1
    <2> QED  BY <1>2, <2>3, <2>4, <2>5 DEF NextFrame
  <1>5. CASE ~(Len(s) + 1 < i + Size(t[i])) /\ i <= Len(s)
    BY SMTT(30), <1>0, <1>1, <1>5
  <1> QED  BY <1>0, <1>3, <1>4, <1>5

LEMMA ConcatParts ==
    ASSUME NEW r \in Seq(Bytes), NEW s \in Seq(Bytes)
    PROVE  /\ r \o s \in Seq(Bytes) /\ Len(r \o s) = Len(r) + Len(s)
           /\ Len(r) \in Nat /\ Len(s) \in Nat
           /\ \A i \in 1 .. Len(r) : (r \o s)[i] = r[i]
           /\ \A i \in 1 .. Len(s) : (r \o s)[Len(r) + i] = s[i]
  BY ConcatProperties

\* read() moves n bytes from the socket to the frame in hand: the stream of
\* the two is the one it was.
LEMMA MoveBytes ==
    ASSUME NEW r \in Seq(Bytes), NEW s \in Seq(Bytes), NEW n \in 0 .. Len(s)
    PROVE  /\ r \o SubSeq(s, 1, n) \in Seq(Bytes) /\ Len(r \o SubSeq(s, 1, n)) = Len(r) + n
           /\ SubSeq(s, n + 1, Len(s)) \in Seq(Bytes)
           /\ (r \o SubSeq(s, 1, n)) \o SubSeq(s, n + 1, Len(s)) = r \o s
  <1> DEFINE b == r \o SubSeq(s, 1, n)
             rest == SubSeq(s, n + 1, Len(s))
  <1>1. Len(s) \in Nat /\ n \in Nat /\ n <= Len(s) /\ Len(r) \in Nat
    OBVIOUS
  <1>2. /\ SubSeq(s, 1, n) \in Seq(Bytes) /\ Len(SubSeq(s, 1, n)) = n
        /\ \A i \in 1 .. n : SubSeq(s, 1, n)[i] = s[i]
    BY <1>1, SubSeqProperties
  <1>3. /\ rest \in Seq(Bytes) /\ Len(rest) = Len(s) - n
        /\ \A i \in 1 .. Len(s) - n : rest[i] = s[n + i]
    BY <1>1, SubSeqProperties
  <1>4. /\ b \in Seq(Bytes) /\ Len(b) = Len(r) + n
        /\ \A i \in 1 .. Len(r) : b[i] = r[i]
        /\ \A i \in 1 .. n : b[Len(r) + i] = s[i]
    BY <1>1, <1>2, ConcatParts
  <1>5. b \o rest = r \o s
    <2>1. SubSeq(s, 1, n) \o rest = s
      <3>1. 1 \in 1 .. Len(s) + 1 /\ n \in 1 - 1 .. Len(s) /\ Len(s) \in n .. Len(s)
        BY <1>1
      <3>2. SubSeq(s, 1, n) \o rest = SubSeq(s, 1, Len(s))
        BY <3>1, ConcatAdjacentSubSeq
      <3> QED  BY <3>2, SubSeqFull
    <2>2. b \o rest = r \o (SubSeq(s, 1, n) \o rest)
      <3>1. ASSUME NEW u \in Seq(Bytes), NEW v \in Seq(Bytes)
            PROVE  (r \o u) \o v = r \o (u \o v)
        <4> DEFINE B == Bytes
        <4>1. r \in Seq(B) /\ u \in Seq(B) /\ v \in Seq(B)
          OBVIOUS
        <4> HIDE DEF B
        <4> QED  BY SMTT(30), <4>1, ConcatAssociative
      <3> QED  BY <1>2, <1>3, <3>1, Zenon
    <2> QED  BY <2>1, <2>2
  <1> QED  BY <1>3, <1>4, <1>5
--------------------------------------------------------------------------------
(* The stream, step by step.                                               *)

LEMMA StreamType ==
    ASSUME StreamTypes
    PROVE  /\ Stream \in Seq(Bytes) /\ Len(Stream) = Len(read) + Len(socket)
           /\ Len(read) \in Nat /\ Len(socket) \in Nat /\ Len(Stream) \in Nat
           /\ \A i \in 1 .. Len(read) : Stream[i] = read[i]
           /\ \A i \in 1 .. Len(socket) : Stream[Len(read) + i] = socket[i]
  BY ConcatParts DEF StreamTypes, Stream

LEMMA ExpectedType == ASSUME StreamTypes PROVE Expected \in Nat
  <1>1. ASSUME delivered # <<>> PROVE delivered[Len(delivered)] \in Nat \X Nat
    BY <1>1 DEF StreamTypes
  <1> QED  BY <1>1 DEF Expected

LEMMA StreamSame ==
    ASSUME StreamInv, UNCHANGED <<read, header, socket, delivered, conn, started, peerOpen, sending>>
    PROVE  StreamInv'
  <1>1. StreamTypes' /\ Stream' = Stream /\ Expected' = Expected
    BY DEF StreamInv, StreamTypes, Stream, Expected
  <1>2. SenderInv' /\ OrderInv'
    BY <1>1 DEF StreamInv, SenderInv, OrderInv, DeliveredInOrder
  <1>3. ReaderInv'
    BY <1>1 DEF StreamInv, ReaderInv
  <1> QED  BY <1>1, <1>2, <1>3 DEF StreamInv

\* A socket that is closed or new holds nothing, and neither does the channel.
LEMMA EmptyStream ==
    ASSUME StreamInv, ResetPartial, socket' = <<>>, sending' = NoFrame, started' = 0,
           delivered' = delivered, peerOpen' \in BOOLEAN,
           \/ conn' = conn /\ ~peerOpen'
           \/ conn' = conn + 1
    PROVE  StreamInv'
  <1>1. read' = <<>> /\ header' = NoHeader
    BY DEF ResetPartial
  <1>2. Stream' = <<>> /\ Len(<<>>) = 0
    BY <1>1 DEF Stream
  <1>3. conn \in Nat /\ conn' \in Nat /\ conn <= conn'
    BY DEF StreamInv, StreamTypes
  <1>4. StreamTypes'
    BY <1>1, <1>3 DEF StreamInv, StreamTypes, Frame, NoFrame, Verdicts
  <1>5. OrderInv'
    <2>1. \A k \in 1 .. Len(delivered) : delivered[k] \in Nat \X Nat /\ delivered[k][1] <= conn
      BY DEF StreamInv, StreamTypes, OrderInv
    <2>2. \A k \in 1 .. Len(delivered) : delivered[k][1] <= conn'
      BY <1>3, <2>1
    <2> QED  BY <2>2 DEF StreamInv, OrderInv, DeliveredInOrder
  <1>6. ReaderInv'
    BY <1>1, <1>2 DEF ReaderInv, Framed
  <1>7. SenderInv'
    <2>1. Continues(Stream', sending', started')
      BY <1>2 DEF Continues
    <2>2. ASSUME peerOpen' PROVE sending'.sent = 0 /\ NextFrame(sending', started') = Expected'
      <3>1. conn' = conn + 1
        BY <2>2
      <3>2. ASSUME delivered # <<>> PROVE delivered[Len(delivered)][1] # conn'
        <4>1. Len(delivered) \in 1 .. Len(delivered) /\ delivered[Len(delivered)] \in Nat \X Nat
          BY <3>2 DEF StreamInv, StreamTypes
        <4>2. delivered[Len(delivered)][1] <= conn
          BY <4>1 DEF StreamInv, OrderInv
        <4> QED  BY <1>3, <3>1, <4>1, <4>2
      <3>3. Expected' = 1
        BY <3>2 DEF Expected
      <3> QED  BY <3>3 DEF NextFrame, NoFrame
    <2> QED  BY <2>1, <2>2 DEF SenderInv
  <1> QED  BY <1>4, <1>5, <1>6, <1>7 DEF StreamInv

\* The frame header the first byte in hand belongs to.
HeadOf(b) == [len |-> b.len, verdict |-> b.verdict]

\* The bytes in hand after a read, and those left in the socket.
InHand == read \o SubSeq(socket, 1, Take)
Rest  == SubSeq(socket, Take + 1, Len(socket))

LEMMA TakeFits ==
    ASSUME StreamInv, socket # <<>>
    PROVE  /\ Take \in 1 .. Len(socket) /\ Take \in Nat
           /\ header = NoHeader => Len(read) + Take <= HeaderSize
           /\ header # NoHeader => Len(read) + Take <= Size(read[1])
  <1>1. Len(read) \in Nat /\ Len(socket) \in Nat /\ Len(socket) > 0
    BY StreamType DEF StreamInv, StreamTypes
  <1>2. CASE header = NoHeader
    <2>1. Len(read) < HeaderSize
      BY <1>1, <1>2, Bounds DEF StreamInv, ReaderInv
    <2>2. Wanted = HeaderSize - Len(read) /\ Wanted \in Nat /\ Wanted > 0
      BY <1>1, <1>2, <2>1, Bounds DEF Wanted
    <2> QED  BY <1>1, <1>2, <2>2, Bounds DEF Take
  <1>3. CASE header # NoHeader
    <2>1. read # <<>> /\ header = HeadOf(read[1]) /\ Len(read) < Size(read[1])
      BY <1>3 DEF StreamInv, ReaderInv, HeadOf
    <2>2. read[1] \in Bytes
      BY <2>1 DEF StreamInv, StreamTypes
    <2>a. header.len = read[1].len
      BY <2>1 DEF HeadOf
    <2>b. Wanted = HeaderSize + read[1].len - Len(read)
      BY <1>3, <2>a DEF Wanted
    <2>c. Size(read[1]) = HeaderSize + read[1].len
      BY DEF Size
    <2>d. Size(read[1]) \in Nat /\ read[1].len \in Nat
      BY <2>2, SizeType DEF Bytes
    <2>3. Wanted = Size(read[1]) - Len(read) /\ Size(read[1]) \in Nat
      BY <1>1, <2>b, <2>c, <2>d, Bounds
    <2>4. Wanted \in Nat /\ Wanted > 0
      BY <1>1, <2>1, <2>3
    <2> QED  BY <1>1, <1>3, <2>3, <2>4 DEF Take
  <1> QED  BY <1>2, <1>3

LEMMA TakenBytes ==
    ASSUME StreamInv, socket # <<>>
    PROVE  /\ InHand \in Seq(Bytes) /\ Rest \in Seq(Bytes) /\ InHand \o Rest = Stream
           /\ Len(InHand) = Len(read) + Take /\ Len(InHand) \in Nat /\ Len(InHand) > 0
           /\ InHand # <<>> /\ InHand[1] \in Bytes /\ InHand[1] = Stream[1]
           /\ Stream \in Seq(Bytes) /\ Stream # <<>> /\ Len(Stream) = Len(InHand) + Len(Rest)
           /\ Len(Rest) \in Nat /\ \A i \in 1 .. Len(InHand) : InHand[i] = Stream[i]
           /\ \A i \in 1 .. Len(Rest) : Rest[i] = Stream[i + Len(InHand)]
  <1>1. /\ Take \in 1 .. Len(socket) /\ Take \in 0 .. Len(socket) /\ Take \in Nat /\ Take > 0
        /\ read \in Seq(Bytes) /\ socket \in Seq(Bytes) /\ Len(read) \in Nat
    BY TakeFits DEF StreamInv, StreamTypes
  <1>2. /\ InHand \in Seq(Bytes) /\ Len(InHand) = Len(read) + Take
        /\ Rest \in Seq(Bytes) /\ InHand \o Rest = read \o socket
    <2> DEFINE n == Take
    <2>1. n \in 0 .. Len(socket) /\ InHand = read \o SubSeq(socket, 1, n)
          /\ Rest = SubSeq(socket, n + 1, Len(socket))
      BY <1>1 DEF Rest, InHand
    <2> HIDE DEF n
    <2>2. \A r, q \in Seq(Bytes) : \A m \in 0 .. Len(q) :
             /\ r \o SubSeq(q, 1, m) \in Seq(Bytes) /\ Len(r \o SubSeq(q, 1, m)) = Len(r) + m
             /\ SubSeq(q, m + 1, Len(q)) \in Seq(Bytes)
             /\ (r \o SubSeq(q, 1, m)) \o SubSeq(q, m + 1, Len(q)) = r \o q
      BY MoveBytes
    <2>3. /\ InHand \in Seq(Bytes) /\ Len(InHand) = Len(read) + n
          /\ Rest \in Seq(Bytes) /\ InHand \o Rest = read \o socket
      BY <1>1, <2>1, <2>2, Zenon
    <2> QED  BY <2>3 DEF n
  <1>3. Len(InHand) \in Nat /\ Len(InHand) > 0
    BY <1>1, <1>2
  <1>4. InHand # <<>> /\ InHand[1] \in Bytes
    BY <1>2, <1>3
  <1>5. InHand \o Rest = Stream
    BY <1>2 DEF Stream
  <1>6. /\ Stream \in Seq(Bytes) /\ Len(Stream) = Len(InHand) + Len(Rest) /\ Len(Rest) \in Nat
        /\ \A i \in 1 .. Len(InHand) : InHand[i] = Stream[i]
        /\ \A i \in 1 .. Len(Rest) : Rest[i] = Stream[Len(InHand) + i]
    BY <1>2, <1>5, ConcatParts
  <1>7. Stream # <<>> /\ InHand[1] = Stream[1]
    <2>1. 1 \in 1 .. Len(InHand) /\ Len(Stream) > 0
      BY <1>3, <1>6
    <2> QED  BY <1>6, <2>1
  <1>8. \A i \in 1 .. Len(Rest) : Rest[i] = Stream[i + Len(InHand)]
    <2>1. \A i \in 1 .. Len(Rest) : i + Len(InHand) = Len(InHand) + i
      BY <1>3
    <2> QED  BY <1>6, <2>1
  <1> QED  BY <1>2, <1>3, <1>4, <1>5, <1>6, <1>7, <1>8

\* What parse_frame_header() makes of the bytes in hand: they start with the
\* first byte of a frame, and the header is that frame's.
LEMMA ReadHeader ==
    ASSUME StreamInv, socket # <<>>, NEW h,
           h \in IF header = NoHeader /\ Len(InHand) = HeaderSize THEN Parsed(InHand) ELSE {header}
    PROVE  h # NoHeader => h = HeadOf(InHand[1])
  <1>1. /\ InHand \in Seq(Bytes) /\ InHand[1] \in Bytes /\ Len(InHand) \in Nat /\ Len(InHand) > 0
        /\ Stream \in Seq(Bytes) /\ Len(Stream) \in Nat /\ Len(InHand) <= Len(Stream)
        /\ Stream # <<>> /\ read \in Seq(Bytes)
    BY TakenBytes DEF StreamInv, StreamTypes
  <1>4. \A i \in 1 .. Len(InHand) : InHand[i] = Stream[i]
    BY TakenBytes
  <1>6. InHand[1] = Stream[1]
    BY TakenBytes
  <1>7. ASSUME h # NoHeader PROVE h = HeadOf(InHand[1])
    <2>1. CASE header = NoHeader /\ Len(InHand) = HeaderSize
      <3>1. 1 \in 1 .. Len(Stream) /\ Stream[1].off = 0
        BY <1>1 DEF StreamInv, ReaderInv
      <3>2. \A j \in 1 .. Len(Stream) :
               j < 1 + Size(InHand[1]) => OfFrame(Stream[j], InHand[1], j - 1)
        BY <1>6, <3>1 DEF StreamInv, ReaderInv, Framed
      <3>3. ASSUME NEW j \in 1 .. HeaderSize PROVE OfFrame(InHand[j], InHand[1], j - 1)
        <4>1. /\ j \in 1 .. Len(Stream) /\ j \in 1 .. Len(InHand)
              /\ Size(InHand[1]) \in Nat /\ j < 1 + Size(InHand[1])
          <5>1. Size(InHand[1]) \in Nat /\ HeaderSize <= Size(InHand[1])
            BY <1>1, SizeType
          <5> QED  BY <1>1, <2>1, <5>1, Bounds
        <4> QED  BY <1>4, <3>2, <4>1
      <3>4. Parsed(InHand) = {HeadOf(InHand[1])}
        BY <3>3 DEF Parsed, HeadOf, OfFrame
      <3> QED  BY <2>1, <3>4
    <2>2. CASE ~(header = NoHeader /\ Len(InHand) = HeaderSize)
      <3>1. h = header /\ header # NoHeader
        BY <1>7, <2>2
      <3>2. read # <<>> /\ header = HeadOf(read[1])
        BY <3>1 DEF StreamInv, ReaderInv, HeadOf
      <3>3. read[1] = Stream[1]
        BY <1>1, <3>2, StreamType DEF StreamInv
      <3> QED  BY <1>6, <3>1, <3>2, <3>3
    <2> QED  BY <2>1, <2>2
  <1> QED  BY <1>7

\* The loop of receive_inner() keeps the bytes: the stream stays as it was.
LEMMA ReadMoreKeeps ==
    ASSUME StreamInv, socket # <<>>, NEW h, ReadMore(InHand, h), socket' = Rest,
           h # NoHeader => h = HeadOf(InHand[1])
    PROVE  StreamInv'
  <1>1. /\ read' = InHand /\ header' = h
        /\ UNCHANGED <<conn, peerOpen, sending, started, delivered>>
        /\ h = NoHeader => Len(InHand) < HeaderSize
        /\ h # NoHeader => Len(InHand) < HeaderSize + h.len
    BY DEF ReadMore, sender
  <1>2. InHand \in Seq(Bytes) /\ Rest \in Seq(Bytes) /\ InHand \o Rest = Stream /\ InHand # <<>>
    BY TakenBytes
  <1>3. Stream' = Stream /\ Expected' = Expected
    BY <1>1, <1>2 DEF Stream, Expected
  <1>4. StreamTypes'
    BY <1>1, <1>2 DEF StreamInv, StreamTypes
  <1>5. SenderInv' /\ OrderInv'
    BY <1>1, <1>3 DEF StreamInv, SenderInv, OrderInv, DeliveredInOrder
  <1>6. ReaderInv'
    <2>1. h # NoHeader => h = HeadOf(InHand[1]) /\ Len(InHand) < Size(InHand[1])
      BY <1>1 DEF HeadOf, Size
    <2>2. Framed(Stream, conn)' /\ (Stream # <<>> => Stream[1].off = 0 /\ Stream[1].frame = Expected)'
      BY <1>1, <1>3 DEF StreamInv, ReaderInv
    <2> QED  BY <1>1, <1>2, <2>1, <2>2 DEF ReaderInv, HeadOf
  <1> QED  BY <1>4, <1>5, <1>6 DEF StreamInv

\* complete() returns the next frame of the connection.
LEMMA DeliverNext ==
    ASSUME StreamTypes, OrderInv, delivered' = Append(delivered, <<conn, Expected>>), conn' = conn
    PROVE  OrderInv' /\ Expected' = Expected + 1 /\ delivered' \in Seq(Nat \X Nat)
  <1>1. delivered \in Seq(Nat \X Nat) /\ Len(delivered) \in Nat /\ conn \in Nat /\ Expected \in Nat
    BY ExpectedType DEF StreamTypes
  <1>2. /\ delivered' \in Seq(Nat \X Nat) /\ Len(delivered') = Len(delivered) + 1
        /\ \A i \in 1 .. Len(delivered) : delivered'[i] = delivered[i]
        /\ delivered'[Len(delivered) + 1] = <<conn, Expected>>
    BY <1>1, AppendProperties
  <1>3. Expected' = Expected + 1
    <2>1. delivered' # <<>> /\ delivered'[Len(delivered')] = <<conn, Expected>>
      BY <1>1, <1>2
    <2> QED  BY <2>1 DEF Expected
  <1>4. DeliveredInOrder'
    <2> SUFFICES ASSUME NEW k \in 1 .. Len(delivered')
                 PROVE  IF k > 1 /\ delivered'[k - 1][1] = delivered'[k][1]
                        THEN delivered'[k][2] = delivered'[k - 1][2] + 1
                        ELSE delivered'[k][2] = 1
      BY DEF DeliveredInOrder
    <2>1. CASE k <= Len(delivered)
      <3>1. k \in 1 .. Len(delivered) /\ (k > 1 => k - 1 \in 1 .. Len(delivered))
        BY <1>1, <1>2, <2>1
      <3>2. delivered'[k] = delivered[k] /\ (k > 1 => delivered'[k - 1] = delivered[k - 1])
        BY <1>2, <3>1
      <3> QED  BY <3>1, <3>2 DEF OrderInv, DeliveredInOrder
    <2>2. CASE k = Len(delivered) + 1
      <3>1. delivered'[k] = <<conn, Expected>>
        BY <1>2, <2>2
      <3>2. CASE delivered = <<>>
        <4>1. ~(k > 1) /\ Expected = 1
          BY <2>2, <3>2 DEF Expected
        <4> QED  BY <3>1, <4>1
      <3>3. CASE delivered # <<>>
        <4>1. k > 1 /\ k - 1 = Len(delivered) /\ k - 1 \in 1 .. Len(delivered)
          BY <1>1, <2>2, <3>3
        <4>2. delivered'[k - 1] = delivered[Len(delivered)]
          BY <1>2, <4>1
        <4> QED  BY <3>1, <3>3, <4>1, <4>2 DEF Expected
      <3> QED  BY <3>2, <3>3
    <2>3. k <= Len(delivered) \/ k = Len(delivered) + 1
      BY SMTT(30), <1>1, <1>2
    <2> QED  BY <2>1, <2>2, <2>3
  <1>5. ASSUME NEW k \in 1 .. Len(delivered') PROVE delivered'[k][1] <= conn
    <2>1. CASE k \in 1 .. Len(delivered)
      BY <1>2, <2>1 DEF OrderInv
    <2>2. CASE k = Len(delivered) + 1
      BY <1>1, <1>2, <2>2
    <2>3. k \in 1 .. Len(delivered) \/ k = Len(delivered) + 1
      BY <1>1, <1>2
    <2> QED  BY <2>1, <2>2, <2>3
  <1> QED  BY <1>2, <1>3, <1>4, <1>5 DEF OrderInv

LEMMA CompleteKeeps ==
    ASSUME StreamInv, socket # <<>>, NEW h, Complete(InHand, h), socket' = Rest,
           h # NoHeader => h = HeadOf(InHand[1])
    PROVE  StreamInv'
  <1>1. /\ read' = <<>> /\ header' = NoHeader /\ UNCHANGED <<conn, peerOpen, sending, started>>
        /\ delivered' = Append(delivered, <<InHand[1].conn, InHand[1].frame>>)
        /\ h = HeadOf(InHand[1]) /\ Len(InHand) = HeaderSize + h.len
    BY DEF Complete, ResetPartial, Return, sender
  <1>2. /\ Rest \in Seq(Bytes) /\ Stream \in Seq(Bytes) /\ Len(InHand) \in Nat /\ Len(InHand) > 0
        /\ InHand[1] = Stream[1] /\ Stream[1] \in Bytes /\ Stream # <<>>
        /\ Len(Stream) = Len(InHand) + Len(Rest) /\ Len(Rest) \in Nat
    BY TakenBytes
  <1>3. \A i \in 1 .. Len(Rest) : Rest[i] = Stream[i + Len(InHand)]
    BY TakenBytes
  <1>4. Len(InHand) = Size(Stream[1]) /\ Size(Stream[1]) \in Nat /\ Size(Stream[1]) > 0
    <2>1. Len(InHand) = Size(Stream[1])
      BY <1>1, <1>2 DEF HeadOf, Size
    <2> QED  BY <1>2, <2>1
  <1>5. Stream' = Rest
    BY <1>1, <1>2, ConcatEmptySeq DEF Stream
  <1>6. /\ 1 \in 1 .. Len(Stream) /\ Stream[1].off = 0 /\ Stream[1].frame = Expected
        /\ Framed(Stream, conn)
    BY <1>2 DEF StreamInv, ReaderInv
  <1>7. /\ Stream[1].conn = conn
        /\ 1 + Size(Stream[1]) <= Len(Stream) =>
              /\ Stream[1 + Size(Stream[1])].off = 0
              /\ Stream[1 + Size(Stream[1])].frame = Expected + 1
    BY <1>6 DEF Framed
  <1>8. OrderInv' /\ Expected' = Expected + 1 /\ delivered' \in Seq(Nat \X Nat)
    <2>1. delivered' = Append(delivered, <<conn, Expected>>)
      BY <1>1, <1>2, <1>6, <1>7
    <2> QED  BY <1>1, <2>1, DeliverNext DEF StreamInv
  <1>9. StreamTypes'
    BY <1>1, <1>2, <1>8 DEF StreamInv, StreamTypes
  <1>10. /\ Framed(Rest, conn)
         /\ Continues(Stream, sending, started) => Continues(Rest, sending, started)
    <2>1. Len(Rest) = Len(Stream) - Len(InHand)
      BY <1>2
    <2> QED  BY <1>2, <1>3, <1>6, <2>1, FramedDrop
  <1>11. ReaderInv'
    <2>1. ASSUME Rest # <<>> PROVE Rest[1].off = 0 /\ Rest[1].frame = Expected + 1
      <3>1. Len(Rest) > 0
        BY <1>2, <2>1
      <3>2. /\ 1 \in 1 .. Len(Rest) /\ 1 + Len(InHand) = 1 + Size(Stream[1])
            /\ 1 + Size(Stream[1]) <= Len(Stream)
        BY <1>2, <1>4, <3>1
      <3>3. Rest[1] = Stream[1 + Size(Stream[1])]
        BY <1>3, <3>2
      <3> QED  BY <1>7, <3>2, <3>3
    <2> QED  BY <1>1, <1>5, <1>8, <1>10, <2>1 DEF ReaderInv
  <1>12. SenderInv'
    <2>1. peerOpen => Continues(Stream, sending, started)
      BY DEF StreamInv, SenderInv
    <2>2. ASSUME peerOpen, Rest = <<>>
          PROVE  sending.sent = 0 /\ NextFrame(sending, started) = Expected + 1
      <3>1. Len(Rest) = 0
        BY <2>2
      <3>2. Len(Stream) + 1 = 1 + Size(Stream[1])
        BY <1>2, <1>4, <3>1
      <3> QED  BY <1>6, <2>1, <2>2, <3>2 DEF Continues
    <2> QED  BY <1>1, <1>5, <1>8, <1>10, <2>1, <2>2 DEF StreamInv, SenderInv
  <1> QED  BY <1>8, <1>9, <1>11, <1>12 DEF StreamInv

\* A sender that closes leaves the bytes it sent, or none of them.
LEMMA PeerClosesKeeps ==
    ASSUME StreamInv, PeerCloses
    PROVE  StreamInv'
  <1>1. /\ peerOpen' = FALSE /\ sending' = NoFrame /\ UNCHANGED <<conn, started, delivered>>
        /\ read' = read /\ header' = header /\ (socket' = socket \/ socket' = <<>>)
    BY DEF PeerCloses, partial
  <1>2. StreamTypes'
    <2>1. socket' \in Seq(Bytes)
      BY <1>1, EmptySeq DEF StreamInv, StreamTypes
    <2> QED  BY <1>1, <2>1 DEF StreamInv, StreamTypes, Frame, NoFrame, Verdicts
  <1>3. /\ Stream \in Seq(Bytes) /\ Stream' \in Seq(Bytes) /\ Len(Stream') <= Len(Stream)
        /\ \A i \in 1 .. Len(Stream') : Stream'[i] = Stream[i]
    <2>1. CASE socket' = socket
      <3>1. Stream' = Stream
        BY <1>1, <2>1 DEF Stream
      <3> QED  BY <3>1, StreamType DEF StreamInv
    <2>2. CASE socket' = <<>>
      <3>1. Stream' = read
        BY <1>1, <2>2, ConcatEmptySeq DEF Stream, StreamInv, StreamTypes
      <3>2. read \in Seq(Bytes)
        BY DEF StreamInv, StreamTypes
      <3> QED  BY <3>1, <3>2, StreamType DEF StreamInv
    <2> QED  BY <1>1, <2>1, <2>2
  <1>4. Framed(Stream', conn)
    BY <1>3, FramedPrefix DEF StreamInv, ReaderInv
  <1>5. ASSUME Stream' # <<>> PROVE Stream'[1].off = 0 /\ Stream'[1].frame = Expected
    <2>1. 1 \in 1 .. Len(Stream') /\ Stream # <<>>
      BY <1>3, <1>5
    <2> QED  BY <1>3, <2>1 DEF StreamInv, ReaderInv
  <1>6. Expected' = Expected
    BY <1>1 DEF Expected
  <1>7. ReaderInv'
    BY <1>1, <1>4, <1>5, <1>6 DEF StreamInv, ReaderInv
  <1>8. SenderInv' /\ OrderInv'
    BY <1>1 DEF StreamInv, SenderInv, OrderInv, DeliveredInOrder
  <1> QED  BY <1>2, <1>7, <1>8 DEF StreamInv

LEMMA HeadersType ==
    ASSUME NEW h \in Headers
    PROVE  h.len \in Nat /\ h.verdict \in Verdicts /\ h.verdict # "none"
  <1>1. PICK f \in Frames : h = [len |-> f.len, verdict |-> Verdict(f)]
    BY DEF Headers
  <1>2. f.len \in Nat
    BY FrameChannelAssumption DEF Frames
  <1>3. Verdict(f) \in {"badHeader", "badBody", "good"}
    BY DEF Verdict
  <1> QED  BY <1>1, <1>2, <1>3 DEF Verdicts

\* The sender begins the frame after the last it wrote.
LEMMA SendFrameKeeps ==
    ASSUME StreamInv, SendFrame
    PROVE  StreamInv'
  <1>1. /\ UNCHANGED <<conn, peerOpen, delivered, read, header, socket>>
        /\ peerOpen /\ sending = NoFrame /\ started' = started + 1
    BY DEF SendFrame, partial
  <1>2. PICK h \in Headers : sending' = [len |-> h.len, verdict |-> h.verdict, sent |-> 0]
    BY DEF SendFrame
  <1>3. sending' \in Frame /\ sending' # NoFrame /\ sending'.sent = 0 /\ sending'.len \in Nat
    BY <1>2, HeadersType DEF Frame, NoFrame
  <1>4. StreamTypes' /\ started \in Nat
    BY <1>1, <1>3 DEF StreamInv, StreamTypes
  <1>5. Stream' = Stream /\ Expected' = Expected
    BY <1>1 DEF Stream, Expected
  <1>6. NextFrame(sending', started') = NextFrame(sending, started)
    BY <1>1, <1>3 DEF NextFrame
  <1>7. Continues(Stream, sending, started)
    BY <1>1 DEF StreamInv, SenderInv
  <1>8. Continues(Stream, sending', started')
    <2> SUFFICES ASSUME NEW i \in 1 .. Len(Stream), Stream[i].off = 0
                 PROVE  /\ ~(Len(Stream) + 1 < i + Size(Stream[i]))
                        /\ Len(Stream) + 1 = i + Size(Stream[i]) =>
                             /\ sending'.sent = 0
                             /\ NextFrame(sending', started') = Stream[i].frame + 1
      BY DEF Continues
    <2> QED  BY <1>1, <1>3, <1>6, <1>7 DEF Continues
  <1>9. SenderInv'
    <2>1. sending'.sent < HeaderSize + sending'.len
      BY <1>3, Bounds
    <2> QED  BY <1>1, <1>3, <1>5, <1>6, <1>8, <2>1 DEF StreamInv, SenderInv
  <1>10. ReaderInv' /\ OrderInv'
    BY <1>1, <1>5 DEF StreamInv, ReaderInv, OrderInv, DeliveredInOrder
  <1> QED  BY <1>4, <1>9, <1>10 DEF StreamInv

\* n bytes of the frame in the sender's hand reach the end of the stream.
Chunk(n) == [i \in 1 .. n |-> Byte(sending.sent + i - 1)]

LEMMA ChunkBytes ==
    ASSUME StreamTypes, NEW n \in Nat \ {0}
    PROVE  /\ Chunk(n) \in Seq(Bytes) /\ Len(Chunk(n)) = n
           /\ \A i \in 1 .. n : Chunk(n)[i] = ByteOf(conn, started, sending, sending.sent + i - 1)
  <1>1. sending.sent \in Nat /\ sending.len \in Nat /\ sending.verdict \in Verdicts
    BY DEF StreamTypes, Frame
  <1>2. \A i \in 1 .. n : Byte(sending.sent + i - 1) \in Bytes
    <2>1. \A i \in 1 .. n : sending.sent + i - 1 \in Nat
      BY <1>1
    <2> QED  BY <1>1, <2>1 DEF Byte, Bytes, StreamTypes
  <1>3. Chunk(n) \in [1 .. n -> Bytes]
    BY <1>2 DEF Chunk
  <1>4. Chunk(n) \in Seq(Bytes)
    BY <1>3, SeqDef
  <1>5. Len(Chunk(n)) = n
    BY <1>3, <1>4
  <1> QED  BY <1>4, <1>5 DEF Chunk, Byte, ByteOf

LEMMA ArriveKeeps ==
    ASSUME StreamInv, NEW n \in Nat \ {0}, Arrive(n)
    PROVE  StreamInv'
  <1>1. /\ UNCHANGED <<conn, peerOpen, started, delivered, read, header>>
        /\ socket' = socket \o Chunk(n) /\ sending # NoFrame
        /\ sending.sent + n <= HeaderSize + sending.len /\ sending' = Advanced(sending, n)
    BY DEF Arrive, Chunk, Advanced, partial
  <1>2. sending.sent + n <= Size(sending)
    BY <1>1 DEF Size
  <1>3. /\ sending \in Frame /\ started \in Nat /\ read \in Seq(Bytes) /\ socket \in Seq(Bytes)
        /\ peerOpen /\ Continues(Stream, sending, started) /\ Framed(Stream, conn)
    BY <1>1 DEF StreamInv, StreamTypes, SenderInv, ReaderInv
  <1>4. /\ Chunk(n) \in Seq(Bytes) /\ Len(Chunk(n)) = n
        /\ \A i \in 1 .. n : Chunk(n)[i] = ByteOf(conn, started, sending, sending.sent + i - 1)
    BY ChunkBytes DEF StreamInv
  <1>5. Stream \in Seq(Bytes) /\ Len(Stream) \in Nat
    BY StreamType DEF StreamInv
  <1>6. Stream' = Stream \o Chunk(n) /\ socket' \in Seq(Bytes)
    <2>1. \A u, v, w \in Seq(Bytes) : u \o (v \o w) = (u \o v) \o w
      <3> SUFFICES ASSUME NEW u \in Seq(Bytes), NEW v \in Seq(Bytes), NEW w \in Seq(Bytes)
                   PROVE  u \o (v \o w) = (u \o v) \o w
        OBVIOUS
      <3> DEFINE B == Bytes
      <3>1. u \in Seq(B) /\ v \in Seq(B) /\ w \in Seq(B)
        OBVIOUS
      <3> HIDE DEF B
      <3> QED  BY SMTT(30), <3>1, ConcatAssociative
    <2>2. socket \o Chunk(n) \in Seq(Bytes)
      BY <1>3, <1>4, ConcatParts
    <2>3. read \o (socket \o Chunk(n)) = (read \o socket) \o Chunk(n)
      BY <1>3, <1>4, <2>1, Zenon
    <2> QED  BY <1>1, <2>2, <2>3 DEF Stream
  <1>7. /\ Stream' \in Seq(Bytes) /\ Len(Stream') = Len(Stream) + n
        /\ \A i \in 1 .. Len(Stream) : Stream'[i] = Stream[i]
        /\ \A i \in 1 .. n : Stream'[Len(Stream) + i] = Chunk(n)[i]
    <2> DEFINE C == Chunk(n)
               T == Stream
    <2>1. T \in Seq(Bytes) /\ C \in Seq(Bytes) /\ Len(C) = n /\ Stream' = T \o C
      BY <1>4, <1>5, <1>6
    <2> HIDE DEF C, T
    <2>2. /\ T \o C \in Seq(Bytes) /\ Len(T \o C) = Len(T) + n
          /\ \A i \in 1 .. Len(T) : (T \o C)[i] = T[i]
          /\ \A i \in 1 .. n : (T \o C)[Len(T) + i] = C[i]
      BY <2>1, ConcatParts
    <2> QED  BY <2>1, <2>2 DEF C, T
  <1>8. ASSUME NEW i \in Len(Stream) + 1 .. Len(Stream')
        PROVE  Stream'[i] = ByteOf(conn, started, sending, sending.sent + i - Len(Stream) - 1)
    <2>1. PICK j \in 1 .. n : i = Len(Stream) + j
      <3>1. i - Len(Stream) \in 1 .. n /\ i = Len(Stream) + (i - Len(Stream))
        BY <1>5, <1>7
      <3> QED  BY <3>1
    <2>2. sending.sent \in Nat
      BY <1>3 DEF Frame
    <2>3. sending.sent + j - 1 = sending.sent + i - Len(Stream) - 1
      BY <1>5, <2>1, <2>2
    <2> QED  BY <1>4, <1>7, <2>1, <2>3
  <1>9. Framed(Stream', conn)
    BY <1>1, <1>2, <1>3, <1>5, <1>7, <1>8, FramedArrive
  <1>10. Continues(Stream', sending', started)
    BY <1>1, <1>2, <1>3, <1>5, <1>7, <1>8, ContinuesArrive
  <1>11. /\ sending' \in Frame
         /\ sending' # NoFrame => sending'.sent < HeaderSize + sending'.len
    <2>1. sending.sent \in Nat /\ sending.len \in Nat /\ Size(sending) = HeaderSize + sending.len
      BY <1>3 DEF Frame, Size
    <2>2. sending.sent + n < Size(sending) \/ sending.sent + n = Size(sending)
      BY <1>2, <2>1, Bounds
    <2> QED  BY <1>1, <1>2, <1>3, <2>1, <2>2, AdvancedFields
  <1>12. StreamTypes'
    BY <1>1, <1>6, <1>11 DEF StreamInv, StreamTypes
  <1>13. Expected' = Expected
    BY <1>1 DEF Expected
  <1>14. Stream' # <<>> /\ Stream'[1].off = 0 /\ Stream'[1].frame = Expected
    <2>1. Len(Stream') > 0 /\ 1 \in 1 .. Len(Stream')
      BY <1>5, <1>7
    <2>2. CASE Stream = <<>>
      <3>1. sending.sent = 0 /\ started = Expected
        BY <1>1, <1>3, <2>2 DEF StreamInv, SenderInv, NextFrame
      <3>2. 1 \in Len(Stream) + 1 .. Len(Stream') /\ Len(Stream) = 0
        BY <1>5, <1>7, <2>2
      <3>3. Stream'[1] = ByteOf(conn, started, sending, 0 + 1 - 0 - 1)
        BY <1>8, <3>1, <3>2
      <3> QED  BY <2>1, <3>1, <3>3 DEF ByteOf
    <2>3. CASE Stream # <<>>
      <3>1. 1 \in 1 .. Len(Stream)
        BY <1>5, <2>3
      <3> QED  BY <1>7, <2>1, <2>3, <3>1 DEF StreamInv, ReaderInv
    <2> QED  BY <2>2, <2>3
  <1>15. SenderInv'
    BY <1>1, <1>3, <1>10, <1>11, <1>14 DEF SenderInv
  <1>16. ReaderInv'
    BY <1>1, <1>9, <1>13, <1>14 DEF StreamInv, ReaderInv
  <1>17. OrderInv'
    BY <1>1 DEF StreamInv, OrderInv, DeliveredInOrder
  <1> QED  BY <1>12, <1>15, <1>16, <1>17 DEF StreamInv
--------------------------------------------------------------------------------
(* The invariant.                                                          *)

IInv == TimeInv /\ StreamInv

LEMMA InitIInv == Init => IInv
  <1> SUFFICES ASSUME Init PROVE IInv
    OBVIOUS
  <1>1. TimeInv
    BY Bounds DEF Init, TimeInv, TimeTypes, BudgetInv, OverrunInv, StallInv, Punctual, Modes
  <1>2. Stream = <<>> /\ Len(<<>>) = 0
    BY DEF Init, Stream
  <1>3. StreamTypes
    <2>1. <<>> \in Seq(Bytes) /\ <<>> \in Seq(Nat \X Nat)
      BY EmptySeq
    <2>2. NoFrame \in Frame
      BY DEF Frame, NoFrame, Verdicts
    <2> QED  BY <2>1, <2>2 DEF Init, StreamTypes
  <1>4. SenderInv /\ ReaderInv /\ OrderInv
    BY <1>2 DEF Init, SenderInv, ReaderInv, OrderInv, DeliveredInOrder, Framed
  <1> QED  BY <1>1, <1>3, <1>4 DEF IInv, StreamInv

\* finish() on an error: the channel is closed, and the partial frame with it.
LEMMA FailKeeps ==
    ASSUME IInv, NEW r, Fail(r)
    PROVE  IInv'
  <1>1. /\ ResetPartial /\ socket' = <<>> /\ sending' = NoFrame /\ started' = 0
        /\ delivered' = delivered /\ peerOpen' = FALSE /\ conn' = conn
        /\ pc' = "idle" /\ UNCHANGED <<mode, left, overrun>>
    BY DEF Fail, Return, Close, DropPartial
  <1>2. TimeInv'
    BY <1>1, NoPartialNotLate DEF IInv
  <1>3. StreamInv'
    BY <1>1, EmptyStream DEF IInv
  <1> QED  BY <1>2, <1>3 DEF IInv

\* A step that reads nothing and only moves the call on or ends it.
LEMMA WaitKeeps ==
    ASSUME IInv, pc' \in {pc, "idle", "reading"}, pc = "idle" => pc' = "idle",
           UNCHANGED <<mode, left, overrun, conn, socket, sender, partial, delivered>>
    PROVE  IInv'
  <1>1. UNCHANGED <<read, header, budget, age, peerOpen, sending, started>>
    BY DEF sender, partial
  <1>2. TimeInv'
    BY <1>1, StepNotLate DEF IInv
  <1>3. StreamInv'
    BY <1>1, StreamSame DEF IInv
  <1> QED  BY <1>2, <1>3 DEF IInv

LEMMA ConnectKeeps ==
    ASSUME IInv, Connect
    PROVE  IInv'
  <1>1. /\ ResetPartial /\ socket' = <<>> /\ sending' = NoFrame /\ started' = 0
        /\ delivered' = delivered /\ peerOpen' \in BOOLEAN
        /\ (conn' = conn /\ ~peerOpen') \/ conn' = conn + 1
        /\ pc = "idle" /\ pc' = "idle" /\ UNCHANGED <<mode, left, overrun>>
    BY DEF Connect, Close, DropPartial
  <1>2. TimeInv'
    BY <1>1, NoPartialNotLate DEF IInv
  <1>3. StreamInv'
    BY <1>1, EmptyStream DEF IInv
  <1> QED  BY <1>2, <1>3 DEF IInv

LEMMA ReadKeeps ==
    ASSUME IInv, Read
    PROVE  IInv'
  <1>1. pc = "reading" /\ socket # <<>> /\ StreamInv /\ TimeInv
    BY DEF Read, IInv
  <1>2. PICK h \in IF header = NoHeader /\ Len(InHand) = HeaderSize THEN Parsed(InHand) ELSE {header} :
           \/ (ReadMore(InHand, h) \/ Complete(InHand, h)) /\ socket' = Rest
           \/ Refuse(InHand, h)
    BY DEF Read, InHand, Rest
  <1>3. h # NoHeader => h = HeadOf(InHand[1])
    BY <1>1, ReadHeader
  <1>4. CASE ReadMore(InHand, h) /\ socket' = Rest
    <2>1. TimeInv'
      BY <1>1, <1>4, TakenBytes, ReadMoreNotLate
    <2>2. StreamInv'
      BY <1>1, <1>3, <1>4, ReadMoreKeeps
    <2> QED  BY <2>1, <2>2 DEF IInv
  <1>5. CASE Complete(InHand, h) /\ socket' = Rest
    <2>1. ResetPartial /\ pc' = "idle" /\ UNCHANGED <<mode, left, overrun>>
      BY <1>5 DEF Complete, Return
    <2>2. TimeInv'
      BY <1>1, <2>1, NoPartialNotLate
    <2>3. StreamInv'
      BY <1>1, <1>3, <1>5, CompleteKeeps
    <2> QED  BY <2>2, <2>3 DEF IInv
  <1>6. CASE Refuse(InHand, h)
    BY <1>6, FailKeeps DEF Refuse
  <1> QED  BY <1>2, <1>4, <1>5, <1>6

LEMMA ReadBlocksKeeps ==
    ASSUME IInv, ReadBlocks
    PROVE  IInv'
  <1>1. CASE Fail("TimedOut")
    BY <1>1, FailKeeps
  <1>2. CASE Return("WouldBlock") /\ UNCHANGED <<connected, socket, sender, partial, delivered>>
    BY <1>2, WaitKeeps DEF Return
  <1>3. CASE /\ read = <<>> \/ budget > 0
             /\ pc = "reading" /\ pc' = "polling"
             /\ UNCHANGED <<mode, left, overrun, conn, socket, sender, partial, delivered>>
    <2>1. UNCHANGED <<read, header, budget, age, peerOpen, sending, started>>
      BY <1>3 DEF sender, partial
    <2>2. TimeInv'
      BY <1>3, <2>1, PollNotLate DEF IInv
    <2>3. StreamInv'
      BY <1>3, <2>1, StreamSame DEF IInv
    <2> QED  BY <2>2, <2>3 DEF IInv
  <1> QED  BY <1>1, <1>2, <1>3 DEF ReadBlocks

\* The network and the clock.
LEMMA NetworkKeeps ==
    ASSUME IInv, Network
    PROVE  IInv'
  <1>1. UNCHANGED <<pc, mode, left, budget, age, overrun, read>>
    BY DEF Network, SendFrame, Arrive, PeerCloses, partial
  <1>2. TimeInv'
    BY <1>1, StepNotLate DEF IInv
  <1>3. StreamInv'
    <2>1. CASE SendFrame
      BY <2>1, SendFrameKeeps DEF IInv
    <2>2. CASE \E n \in 1 .. 2 : Arrive(n)
      <3>1. PICK n \in 1 .. 2 : Arrive(n)
        BY <2>2
      <3>2. n \in Nat \ {0}
        OBVIOUS
      <3> QED  BY <3>1, <3>2, ArriveKeeps DEF IInv
    <2>3. CASE PeerCloses
      BY <2>3, PeerClosesKeeps DEF IInv
    <2> QED  BY <2>1, <2>2, <2>3 DEF Network
  <1> QED  BY <1>2, <1>3 DEF IInv

LEMMA NextKeeps == IInv /\ [Next]_vars => IInv'
  <1> SUFFICES ASSUME IInv, [Next]_vars PROVE IInv'
    OBVIOUS
  <1>1. CASE Connect
    BY <1>1, ConnectKeeps
  <1>2. CASE Caller
    <2>1. PICK m \in Modes : Call(m)
      BY <1>2 DEF Caller
    <2>2. UNCHANGED <<read, header, socket, delivered, conn, started, peerOpen, sending>>
      BY <2>1 DEF Call, partial, sender
    <2>3. TimeInv'
      BY <2>1, CallNotLate DEF IInv
    <2>4. StreamInv'
      BY <2>2, StreamSame DEF IInv
    <2> QED  BY <2>3, <2>4 DEF IInv
  <1>3. CASE Read
    BY <1>3, ReadKeeps
  <1>4. CASE ReadEnds
    BY <1>4, FailKeeps DEF ReadEnds
  <1>5. CASE ReadBlocks
    BY <1>5, ReadBlocksKeeps
  <1>6. CASE PollWakes
    BY <1>6, WaitKeeps DEF PollWakes
  <1>7. CASE PollInterrupted
    BY <1>7, WaitKeeps DEF PollInterrupted, Return
  <1>8. CASE Network
    BY <1>8, NetworkKeeps
  <1>9. CASE Tick
    <2>1. UNCHANGED <<read, header, socket, delivered, conn, started, peerOpen, sending>>
      BY <1>9 DEF Tick, sender
    <2>2. TimeInv'
      BY <1>9, TickNotLate DEF IInv
    <2>3. StreamInv'
      BY <2>1, StreamSame DEF IInv
    <2> QED  BY <2>2, <2>3 DEF IInv
  <1>10. CASE UNCHANGED vars
    BY <1>10, WaitKeeps DEF vars
  <1> QED
    BY <1>1, <1>2, <1>3, <1>4, <1>5, <1>6, <1>7, <1>8, <1>9, <1>10 DEF Next, Reader

\* The invariant of the channel: the clock part bounds every wait by the
\* caller's deadline and the frame's budget, and the stream part says that what
\* the channel holds and what the socket holds are one run of whole frames.
THEOREM ChannelInvariant == Spec => []IInv
  <1>1. Init => IInv
    BY InitIInv
  <1>2. IInv /\ [Next]_vars => IInv'
    BY NextKeeps
  <1> QED  BY <1>1, <1>2, PTL DEF Spec

\* receive() and its variants never lose their place in the stream: the bytes
\* in hand are the first of one frame of the open connection, and the frames
\* returned follow one another from the first, for every frame the sender
\* writes and however the network cuts them up.
THEOREM StreamStaysInStep == Spec => []StreamInStep
  <1>1. IInv => StreamInStep
    <2> SUFFICES ASSUME IInv PROVE StreamInStep
      OBVIOUS
    <2>1. DeliveredInOrder
      BY DEF IInv, StreamInv, OrderInv
    <2>2. Aligned
      <3> SUFFICES ASSUME NEW i \in 1 .. Len(read)
                   PROVE  /\ read[i].conn = conn /\ read[i].frame = read[1].frame
                          /\ read[i].off = i - 1
        BY DEF Aligned
      <3>1. /\ read \in Seq(Bytes) /\ Len(read) \in Nat /\ Len(Stream) \in Nat
            /\ Len(read) <= Len(Stream) /\ Stream \in Seq(Bytes)
        BY StreamType DEF IInv, StreamInv, StreamTypes
      <3>2. \A j \in 1 .. Len(read) : Stream[j] = read[j]
        BY StreamType DEF IInv, StreamInv
      <3>3. read # <<>> /\ read[1] \in Bytes /\ 1 \in 1 .. Len(read) /\ i \in 1 .. Len(Stream)
        BY <3>1
      <3>4. Len(read) < Size(read[1])
        <4>1. Size(read[1]) \in Nat /\ HeaderSize <= Size(read[1])
          BY <3>3, SizeType
        <4> QED  BY <3>1, <3>3, <4>1, Bounds DEF IInv, StreamInv, ReaderInv
      <3>5. Stream[1] = read[1] /\ 1 \in 1 .. Len(Stream) /\ Stream[1].off = 0
        <4>1. Stream[1] = read[1] /\ 1 \in 1 .. Len(Stream) /\ Stream # <<>>
          BY <3>1, <3>2, <3>3
        <4> QED  BY <4>1 DEF IInv, StreamInv, ReaderInv
      <3>6. /\ read[1].conn = conn
            /\ \A j \in 1 .. Len(Stream) :
                  j < 1 + Size(read[1]) => OfFrame(Stream[j], read[1], j - 1)
        BY <3>5 DEF IInv, StreamInv, ReaderInv, Framed
      <3>7. i < 1 + Size(read[1])
        BY <3>1, <3>3, <3>4, SizeType
      <3>8. OfFrame(read[i], read[1], i - 1)
        BY <3>2, <3>3, <3>6, <3>7
      <3> QED  BY <3>6, <3>8 DEF OfFrame
    <2> QED  BY <2>1, <2>2 DEF StreamInStep
  <1> QED  BY <1>1, ChannelInvariant, PTL

\* receive_until() and receive_ready() never outlast their deadline, receive()
\* outlasts it by no more than the body budget, and no poll holds a caller on a
\* frame older than that budget and the caller's own slice.
THEOREM DeadlinesAreKept == Spec => []DeadlinesKept
  <1>1. IInv => DeadlinesKept
    <2> SUFFICES ASSUME IInv PROVE DeadlinesKept
      OBVIOUS
    <2>1. Punctual
      BY DEF IInv, TimeInv, OverrunInv
    <2>2. StallBounded
      <3>1. age \in Nat /\ left \in Nat
        BY Bounds DEF IInv, TimeInv, TimeTypes
      <3>2. ASSUME pc = "polling", read # <<>> PROVE age + left < BodyBudget + Slice
        BY <3>2 DEF IInv, TimeInv, StallInv
      <3>3. ASSUME pc = "polling", read # <<>> PROVE age < BodyBudget + Slice
        BY <3>1, <3>2, <3>3, Bounds
      <3> QED  BY <3>3 DEF StallBounded
    <2> QED  BY <2>1, <2>2 DEF DeadlinesKept
  <1> QED  BY <1>1, ChannelInvariant, PTL

--------------------------------------------------------------------------------
(* The SSH session: a stream is a chain of packets, each sealed where the   *)
(* one before it left off.                                                 *)

\* The place in a stream after a packet: NEWKEYS is the last one under its key.
After(p) == IF p.m.k = "newkeys" THEN <<p.seal[1] + 1, 0>>
            ELSE <<p.seal[1], (p.seal[2] + 1) % SeqSpace>>

\* The packets of a stream lead from where its reader is to where its writer is.
Chain(q, from, to) ==
    /\ \E S : q \in Seq(S)
    /\ IF q = <<>> THEN from = to ELSE q[1].seal = from /\ After(q[Len(q)]) = to
    /\ \A i \in 1..Len(q) : i < Len(q) => q[i + 1].seal = After(q[i])

Dirs == [key : Nat, seq : 0..(SeqSpace - 1)]

LEMMA Division ==
    ASSUME NEW s \in Nat, s > 1, NEW a \in Nat
    PROVE  /\ a % s \in 0..(s - 1) /\ a \div s \in Nat /\ a = s * (a \div s) + (a % s)
           /\ a < s => a % s = a
  <1>1. a % s \in 0..(s - 1)
    OBVIOUS
  <1>2. a \div s \in Nat
    OBVIOUS
  <1>3. a = s * (a \div s) + (a % s)
    OBVIOUS
  <1>4. a < s => a % s = a
    OBVIOUS
  <1> QED  BY <1>1, <1>2, <1>3, <1>4

LEMMA Remainder ==
    ASSUME NEW s \in Nat, s > 1, NEW q \in Nat, NEW r \in Nat, NEW p \in Nat, NEW t \in Nat,
           s * q + r = s * p + t, r < s, t < s
    PROVE  r = t
  <1>1. \A x, y \in Nat : x > y => s * x >= s * y + s
    OBVIOUS
  <1>2. s * q \in Nat /\ s * p \in Nat
    OBVIOUS
  <1>3. ~(q > p) /\ ~(p > q)
    BY <1>1, <1>2
  <1>4. q = p
    BY <1>3
  <1> QED  BY <1>2, <1>4

LEMMA Divided ==
    ASSUME NEW s \in Nat, s > 1, NEW a \in Nat, NEW r, r = a % s
    PROVE  r \in Nat /\ r < s /\ \E q \in Nat : a = s * q + r
  <1> DEFINE q == a \div s
  <1>1. r \in 0..(s - 1) /\ q \in Nat /\ a = s * q + r
    BY Division
  <1>2. r \in Nat /\ r < s
    <2>1. r \in 0..(s - 1)
      BY <1>1
    <2> QED  BY <2>1
  <1>3. \E x \in Nat : a = s * x + r
    BY <1>1, Zenon
  <1> QED  BY <1>2, <1>3

\* Counting on from a remainder.
LEMMA OneMore ==
    ASSUME NEW s \in Nat, s > 1, NEW a \in Nat
    PROVE  ((a % s) + 1) % s = (a + 1) % s
  <1> DEFINE r == a % s
             b == a + 1
             t == b % s
             n == r + 1
  <1>1. b \in Nat
    OBVIOUS
  <1>2. r \in Nat /\ r < s /\ \E q \in Nat : a = s * q + r
    BY Divided
  <1> HIDE DEF b
  <1>3. t \in Nat /\ t < s /\ \E p \in Nat : b = s * p + t
    BY <1>1, Divided
  <1> HIDE DEF r, t
  <1>4. PICK q \in Nat : a = s * q + r
    BY <1>2
  <1>5. PICK p \in Nat : b = s * p + t
    BY <1>3
  <1>6. b = a + 1 /\ n = r + 1 /\ n \in Nat
    BY <1>2 DEF b
  <1> HIDE DEF n
  <1>7. s * q \in Nat /\ s * p \in Nat
    OBVIOUS
  <1>8. s * q + n = s * p + t
    BY <1>2, <1>3, <1>4, <1>5, <1>6, <1>7
  <1>9. n % s = t
    <2>1. CASE n < s
      <3>1. n = t
        BY <1>3, <1>6, <1>8, <2>1, Remainder
      <3> QED  BY <1>6, <2>1, <3>1, Division
    <2>2. CASE n = s
      <3> DEFINE d == q + 1
                 m == s % s
      <3>1. d \in Nat /\ s * d = s * q + s /\ s * 1 = s
        OBVIOUS
      <3>2. m \in Nat /\ m < s /\ \E x \in Nat : s = s * x + m
        BY Divided
      <3> HIDE DEF d, m
      <3>3. s * d + 0 = s * p + t
        BY <1>3, <1>7, <1>8, <2>2, <3>1
      <3>4. 0 = t
        BY <1>3, <3>1, <3>3, Remainder
      <3>5. PICK x \in Nat : s = s * x + m
        BY <3>2
      <3>6. s * 1 + 0 = s * x + m
        BY <3>1, <3>5
      <3>7. 0 = m
        BY <3>2, <3>6, Remainder
      <3> QED  BY <2>2, <3>4, <3>7 DEF m
    <2> QED  BY <1>2, <1>6, <2>1, <2>2
  <1> QED  BY <1>9 DEF r, t, b, n

LEMMA Space == SeqSpace \in Nat /\ SeqSpace > 1
  BY SshSessionAssumption

LEMMA MovedIs ==
    ASSUME NEW d \in Dirs, NEW n \in Nat
    PROVE  /\ Moved(d, n) \in Dirs /\ Moved(d, n).key = d.key
           /\ Moved(d, n).seq = (d.seq + n) % SeqSpace
           /\ Seal(Moved(d, n)) = <<d.key, (d.seq + n) % SeqSpace>>
           /\ Moved(d, 0) = d
           /\ Moved(d, 1) = [key |-> d.key, seq |-> (d.seq + 1) % SeqSpace]
  <1>1. /\ d = [key |-> d.key, seq |-> d.seq] /\ d.key \in Nat /\ d.seq \in Nat
        /\ d.seq < SeqSpace
    BY Space DEF Dirs
  <1>2. \A x \in Nat : x % SeqSpace \in 0..(SeqSpace - 1)
    BY Space, Division
  <1>3. Moved(d, n) = [key |-> d.key, seq |-> (d.seq + n) % SeqSpace]
    BY <1>1 DEF Moved
  <1>4. d.seq + n \in Nat /\ d.seq + 0 = d.seq
    BY <1>1
  <1>5. (d.seq + n) % SeqSpace \in 0..(SeqSpace - 1)
    BY <1>2, <1>4
  <1>6. Moved(d, 0) = [key |-> d.key, seq |-> (d.seq + 0) % SeqSpace]
    BY <1>1 DEF Moved
  <1>7. d.seq % SeqSpace = d.seq
    BY <1>1, Space, Division
  <1>8. Moved(d, 1) = [key |-> d.key, seq |-> (d.seq + 1) % SeqSpace]
    BY <1>1 DEF Moved
  <1> QED  BY <1>1, <1>3, <1>4, <1>5, <1>6, <1>7, <1>8 DEF Dirs, Seal

\* A packet that is not NEWKEYS takes its reader one further.
LEMMA ReadOne ==
    ASSUME NEW d \in Dirs, NEW p, p.seal = Seal(d), p.m.k # "newkeys"
    PROVE  After(p) = Seal(Moved(d, 1))
  <1>1. p.seal = <<d.key, d.seq>>
    BY DEF Seal
  <1>2. After(p) = <<d.key, (d.seq + 1) % SeqSpace>>
    BY <1>1 DEF After
  <1> QED  BY <1>2, MovedIs

LEMMA ChainTail ==
    ASSUME NEW q, NEW from, NEW to, Chain(q, from, to), q # <<>>
    PROVE  Chain(Tail(q), After(q[1]), to) /\ q[1].seal = from /\ Head(q) = q[1]
  <1>1. PICK S : q \in Seq(S)
    BY DEF Chain
  <1> DEFINE t == Tail(q)
  <1>2. /\ t \in Seq(S) /\ Len(q) \in Nat /\ Len(q) >= 1 /\ Len(t) = Len(q) - 1 /\ Head(q) = q[1]
        /\ \A i \in 1..Len(t) : t[i] = q[i + 1]
    BY <1>1
  <1>a. t = <<>> <=> Len(q) = 1
    BY <1>1, <1>2
  <1> HIDE DEF t
  <1>3. q[1].seal = from /\ After(q[Len(q)]) = to
    BY DEF Chain
  <1>4. \A i \in 1..Len(q) : i < Len(q) => q[i + 1].seal = After(q[i])
    BY DEF Chain
  <1>5. CASE t = <<>>
    <2>1. After(q[1]) = to /\ \A i \in 1..Len(t) : ~(i < Len(t))
      <3>1. Len(q) = 1 /\ Len(t) = 0
        BY <1>2, <1>5, <1>a
      <3> QED  BY <1>3, <3>1
    <2> QED  BY <1>2, <1>3, <1>5, <2>1 DEF Chain, t
  <1>6. CASE t # <<>>
    <2>1. Len(q) > 1 /\ Len(t) \in 1..Len(t) /\ 1 \in 1..Len(t)
      BY <1>2, <1>6, <1>a
    <2>2. t[1] = q[2] /\ t[Len(t)] = q[Len(q)]
      BY <1>2, <2>1
    <2>3. q[2].seal = After(q[1])
      BY <1>2, <1>4, <2>1
    <2>4. ASSUME NEW i \in 1..Len(t), i < Len(t) PROVE t[i + 1].seal = After(t[i])
      <3>1. t[i] = q[i + 1] /\ t[i + 1] = q[(i + 1) + 1] /\ i + 1 \in 1..Len(q) /\ i + 1 < Len(q)
        BY <1>2, <2>4
      <3> QED  BY <1>4, <3>1
    <2> QED  BY <1>2, <1>3, <1>6, <2>2, <2>3, <2>4 DEF Chain, t
  <1> QED  BY <1>5, <1>6

Special == {"newkeys", "auth", "info"}

\* Messages none of which is NEWKEYS or carries a credential.
Plain(ms) == (\E T : ms \in Seq(T)) /\ \A i \in 1..Len(ms) : ms[i].k \notin Special

LEMMA PlainOnes ==
    /\ Plain(<<>>)
    /\ \A k, c, v : k \notin Special => Plain(<<M(k, c, v)>>) /\ Len(<<M(k, c, v)>>) = 1
    /\ \A a, b : Plain(a) /\ Plain(b) => Plain(a \o b)
  <1>1. Plain(<<>>)
    <2>1. <<>> \in Seq({}) /\ \A i \in 1..Len(<<>>) : FALSE
      OBVIOUS
    <2> QED  BY <2>1 DEF Plain
  <1>2. ASSUME NEW k, NEW c, NEW v, k \notin Special
        PROVE  Plain(<<M(k, c, v)>>) /\ Len(<<M(k, c, v)>>) = 1
    <2> DEFINE m == M(k, c, v)
    <2>1. m.k = k
      BY DEF M
    <2> HIDE DEF m
    <2>2. <<m>> \in Seq({m}) /\ Len(<<m>>) = 1 /\ <<m>>[1] = m
      OBVIOUS
    <2>3. Plain(<<m>>)
      <3>1. \A i \in 1..Len(<<m>>) : <<m>>[i] = m
        BY <2>2
      <3> QED  BY <1>2, <2>1, <2>2, <3>1 DEF Plain
    <2> QED  BY <2>2, <2>3 DEF m
  <1>3. ASSUME NEW a, NEW b, Plain(a), Plain(b)
        PROVE  Plain(a \o b)
    <2>1. PICK S, T : a \in Seq(S) /\ b \in Seq(T)
      BY <1>3 DEF Plain
    <2>2. a \in Seq(S \cup T) /\ b \in Seq(S \cup T)
      BY <2>1
    <2> DEFINE c == a \o b
    <2>3. /\ c \in Seq(S \cup T) /\ Len(c) = Len(a) + Len(b) /\ Len(a) \in Nat /\ Len(b) \in Nat
          /\ \A i \in 1..Len(a) : c[i] = a[i]
          /\ \A i \in 1..Len(b) : c[Len(a) + i] = b[i]
      BY <2>2
    <2> HIDE DEF c
    <2>4. ASSUME NEW i \in 1..Len(c) PROVE c[i].k \notin Special
      <3>1. CASE i <= Len(a)
        BY SMTT(30), <1>3, <2>3, <3>1 DEF Plain
      <3>2. CASE i > Len(a)
        <4>1. i - Len(a) \in 1..Len(b) /\ Len(a) + (i - Len(a)) = i
          BY <2>3, <3>2
        <4> QED  BY <1>3, <2>3, <4>1 DEF Plain
      <3> QED  BY <2>3, <3>1, <3>2
    <2>5. Plain(c)
      BY <2>3, <2>4 DEF Plain
    <2> QED  BY <2>5 DEF c
  <1> QED  BY <1>1, <1>2, <1>3

\* The packets of a stream that more messages have been sealed into.
Joined(q, d, ms, r) ==
    /\ \E R : r \in Seq(R)
    /\ Len(q) \in Nat /\ Len(ms) \in Nat /\ Len(r) = Len(q) + Len(ms)
    /\ \A i \in 1..Len(q) : r[i] = q[i]
    /\ \A j \in 1..Len(ms) : /\ r[Len(q) + j].m = ms[j]
                             /\ r[Len(q) + j].seal = <<d.key, (d.seq + (j - 1)) % SeqSpace>>

LEMMA PutElements ==
    ASSUME NEW S, NEW q, q \in Seq(S), NEW d, d \in Dirs, NEW T, NEW ms, ms \in Seq(T)
    PROVE  Joined(q, d, ms, q \o Sealed(d, ms))
  <1> DEFINE r == q \o Sealed(d, ms)
  <1>1. q \in Seq(S) /\ ms \in Seq(T)
    OBVIOUS
  <1> DEFINE e == Sealed(d, ms)
             U == {e[i] : i \in 1..Len(ms)}
  <1>2. DOMAIN ms = 1..Len(ms) /\ Len(ms) \in Nat
    BY <1>1
  <1>3. e = [i \in 1..Len(ms) |-> [m |-> ms[i], seal |-> Seal(Moved(d, i - 1))]]
    BY <1>2 DEF Sealed
  <1>4. ASSUME NEW j \in 1..Len(ms)
        PROVE  e[j].m = ms[j] /\ e[j].seal = <<d.key, (d.seq + (j - 1)) % SeqSpace>>
    <2>1. e[j] = [m |-> ms[j], seal |-> Seal(Moved(d, j - 1))]
      BY <1>3
    <2>2. j - 1 \in Nat
      BY <1>2
    <2>3. Seal(Moved(d, j - 1)) = <<d.key, (d.seq + (j - 1)) % SeqSpace>>
      BY <2>2, MovedIs
    <2> QED  BY <2>1, <2>3
  <1>5. e \in Seq(U) /\ Len(e) = Len(ms)
    <2>1. e \in [1..Len(ms) -> U]
      BY <1>3
    <2> HIDE DEF e, U
    <2> QED  BY <1>2, <2>1
  <1> HIDE DEF e, U
  <1>6. q \in Seq(S \cup U) /\ e \in Seq(S \cup U)
    BY <1>1, <1>5
  <1>7. r = q \o e
    BY DEF e
  <1>8. /\ r \in Seq(S \cup U) /\ Len(q) \in Nat /\ Len(r) = Len(q) + Len(e)
        /\ \A i \in 1..Len(q) : r[i] = q[i]
        /\ \A j \in 1..Len(e) : r[Len(q) + j] = e[j]
    BY <1>6, <1>7
  <1> HIDE DEF r
  <1>9. Joined(q, d, ms, r)
    BY <1>2, <1>4, <1>5, <1>8 DEF Joined
  <1> QED  BY <1>9 DEF r

\* Packets that are sent continue the stream.
LEMMA ChainPut ==
    ASSUME NEW q, NEW from, NEW d \in Dirs, Chain(q, from, Seal(d)), NEW ms, \E T : ms \in Seq(T),
           \A i \in 1..Len(ms) : i < Len(ms) => ms[i].k # "newkeys",
           NEW r, r = q \o Sealed(d, ms), NEW to,
           IF ms # <<>> /\ ms[Len(ms)].k = "newkeys" THEN to = <<d.key + 1, 0>>
           ELSE to = Seal(Moved(d, Len(ms)))
    PROVE  Chain(r, from, to)
  <1>0. PICK S, T : q \in Seq(S) /\ ms \in Seq(T)
    BY DEF Chain
  <1>1. /\ \E R : r \in Seq(R)
        /\ Len(q) \in Nat /\ Len(ms) \in Nat /\ Len(r) = Len(q) + Len(ms)
        /\ \A i \in 1..Len(q) : r[i] = q[i]
        /\ \A j \in 1..Len(ms) : /\ r[Len(q) + j].m = ms[j]
                                 /\ r[Len(q) + j].seal = <<d.key, (d.seq + (j - 1)) % SeqSpace>>
    <2>1. Joined(q, d, ms, q \o Sealed(d, ms))
      BY <1>0, PutElements
    <2> QED  BY <2>1 DEF Joined
  <1>2. d.key \in Nat /\ d.seq \in Nat /\ d.seq < SeqSpace /\ Seal(d) = <<d.key, d.seq>>
    BY Space DEF Dirs, Seal
  <1>3. ms = <<>> <=> Len(ms) = 0
    BY <1>0
  <1>4. q = <<>> <=> Len(q) = 0
    BY <1>0
  <1>5. r = <<>> <=> Len(r) = 0
    BY <1>1
  <1>6. ASSUME NEW j \in 1..Len(ms), ms[j].k # "newkeys"
        PROVE  After(r[Len(q) + j]) = <<d.key, (d.seq + j) % SeqSpace>>
    <2> DEFINE p == r[Len(q) + j]
               a == d.seq + (j - 1)
    <2>1. p.m.k # "newkeys" /\ p.seal = <<d.key, a % SeqSpace>> /\ a \in Nat
      BY SMTT(30), <1>1, <1>2, <1>6
    <2>2. a + 1 = d.seq + j
      BY <1>1, <1>2
    <2> HIDE DEF p, a
    <2>3. After(p) = <<d.key, ((a % SeqSpace) + 1) % SeqSpace>>
      BY <2>1 DEF After
    <2>4. ((a % SeqSpace) + 1) % SeqSpace = (a + 1) % SeqSpace
      BY <2>1, Space, OneMore
    <2>5. After(p) = <<d.key, (d.seq + j) % SeqSpace>>
      BY <2>2, <2>3, <2>4
    <2> QED  BY <2>5 DEF p
  <1>7. ASSUME Len(ms) > 0 PROVE r[Len(q) + 1].seal = Seal(d)
    <2>1. d.seq % SeqSpace = d.seq
      BY <1>2, Space, Division
    <2>2. d.seq + (1 - 1) = d.seq /\ 1 \in 1..Len(ms)
      BY <1>1, <1>2, <1>7
    <2>3. r[Len(q) + 1].seal = <<d.key, (d.seq + (1 - 1)) % SeqSpace>>
      BY <1>1, <2>2
    <2> QED  BY <1>2, <2>1, <2>2, <2>3
  <1>8. IF r = <<>> THEN from = to ELSE r[1].seal = from /\ After(r[Len(r)]) = to
    <2>1. CASE Len(ms) = 0
      <3>1. to = Seal(d)
        BY <1>3, <2>1, MovedIs
      <3>2. CASE Len(q) = 0
        BY <1>1, <1>4, <1>5, <2>1, <3>1, <3>2 DEF Chain
      <3>3. CASE Len(q) > 0
        <4>1. q # <<>> /\ r # <<>> /\ r[1] = q[1] /\ r[Len(r)] = q[Len(q)]
          BY <1>1, <1>4, <1>5, <2>1, <3>3
        <4> QED  BY <3>1, <4>1 DEF Chain
      <3> QED  BY <1>1, <3>2, <3>3
    <2>2. CASE Len(ms) > 0
      <3>1. r # <<>> /\ Len(ms) \in 1..Len(ms) /\ ms # <<>>
        BY <1>1, <1>3, <1>5, <2>2
      <3>2. After(r[Len(r)]) = to
        <4>1. CASE ms[Len(ms)].k = "newkeys"
          <5>1. to = <<d.key + 1, 0>>
            BY <3>1, <4>1
          <5>2. r[Len(r)].m.k = "newkeys" /\ r[Len(r)].seal[1] = d.key
            BY <1>1, <3>1, <4>1
          <5> QED  BY <5>1, <5>2 DEF After
        <4>2. CASE ms[Len(ms)].k # "newkeys"
          <5>1. to = <<d.key, (d.seq + Len(ms)) % SeqSpace>>
            BY <1>1, <4>2, MovedIs
          <5>2. After(r[Len(q) + Len(ms)]) = <<d.key, (d.seq + Len(ms)) % SeqSpace>>
            BY <1>6, <3>1, <4>2
          <5> QED  BY <1>1, <5>1, <5>2
        <4> QED  BY <4>1, <4>2
      <3>3. r[1].seal = from
        <4>1. CASE Len(q) = 0
          <5>1. from = Seal(d)
            BY <1>4, <4>1 DEF Chain
          <5>2. Len(q) + 1 = 1
            BY <4>1
          <5> QED  BY <1>7, <2>2, <5>1, <5>2
        <4>2. CASE Len(q) > 0
          <5>1. q # <<>> /\ r[1] = q[1]
            BY <1>1, <1>4, <4>2
          <5> QED  BY <5>1 DEF Chain
        <4>3. Len(q) = 0 \/ Len(q) > 0
          BY <1>1
        <4> QED  BY <4>1, <4>2, <4>3
      <3> QED  BY <3>1, <3>2, <3>3
    <2> QED  BY <1>1, <2>1, <2>2
  <1>9. ASSUME NEW i \in 1..Len(r), i < Len(r) PROVE r[i + 1].seal = After(r[i])
    <2>1. CASE i < Len(q)
      <3>1. r[i] = q[i] /\ r[i + 1] = q[i + 1] /\ i \in 1..Len(q)
        BY <1>1, <2>1
      <3> QED  BY <2>1, <3>1 DEF Chain
    <2>2. CASE i = Len(q)
      <3>1. r[i] = q[Len(q)] /\ Len(ms) > 0 /\ Len(q) > 0 /\ q # <<>>
        BY <1>1, <1>4, <1>9, <2>2
      <3>2. After(q[Len(q)]) = Seal(d)
        BY <3>1 DEF Chain
      <3> QED  BY <1>7, <2>2, <3>1, <3>2
    <2>3. CASE i > Len(q)
      <3>1. PICK j \in 1..Len(ms) : i = Len(q) + j /\ j < Len(ms) /\ i + 1 = Len(q) + (j + 1)
                                    /\ j + 1 \in 1..Len(ms) /\ (j + 1) - 1 = j
        <4>1. i - Len(q) \in 1..Len(ms) /\ i = Len(q) + (i - Len(q)) /\ (i - Len(q)) < Len(ms)
              /\ i + 1 = Len(q) + ((i - Len(q)) + 1) /\ (i - Len(q)) + 1 \in 1..Len(ms)
              /\ ((i - Len(q)) + 1) - 1 = i - Len(q)
          BY <1>1, <1>9, <2>3
        <4> QED  BY <4>1
      <3>2. ms[j].k # "newkeys"
        BY <3>1
      <3>3. After(r[i]) = <<d.key, (d.seq + j) % SeqSpace>>
        BY <1>6, <3>1, <3>2
      <3>4. r[i + 1].seal = <<d.key, (d.seq + ((j + 1) - 1)) % SeqSpace>>
        BY <1>1, <3>1
      <3> QED  BY <3>1, <3>3, <3>4
    <2>4. i < Len(q) \/ i = Len(q) \/ i > Len(q)
      BY <1>1
    <2> QED  BY <2>1, <2>2, <2>3, <2>4
  <1> QED  BY <1>1, <1>8, <1>9 DEF Chain

\* Where messages take their writer, and a message its reader.
Onward(d, ms) == IF ms # <<>> /\ ms[Len(ms)].k = "newkeys" THEN [key |-> d.key + 1, seq |-> 0]
                 ELSE Moved(d, Len(ms))
Past(d, m)    == IF m.k = "newkeys" THEN [key |-> d.key + 1, seq |-> 0] ELSE Moved(d, 1)

\* NEWKEYS comes last, if it is sent.
Sendable(ms) ==
    (\E T : ms \in Seq(T)) /\ \A i \in 1..Len(ms) : i < Len(ms) => ms[i].k # "newkeys"

LEMMA NewDir == ASSUME NEW d \in Dirs
    PROVE  /\ [key |-> d.key + 1, seq |-> 0] \in Dirs
           /\ Seal([key |-> d.key + 1, seq |-> 0]) = <<d.key + 1, 0>>
  BY Space DEF Dirs, Seal

LEMMA ChainSent ==
    ASSUME NEW q, NEW from, NEW d, d \in Dirs, Chain(q, from, Seal(d)), NEW ms, Sendable(ms)
    PROVE  Chain(q \o Sealed(d, ms), from, Seal(Onward(d, ms))) /\ Onward(d, ms) \in Dirs
  <1>1. PICK T : ms \in Seq(T)
    BY DEF Sendable
  <1>2. Len(ms) \in Nat
    BY <1>1
  <1>3. Onward(d, ms) \in Dirs
    BY <1>2, NewDir, MovedIs DEF Onward
  <1> DEFINE r == q \o Sealed(d, ms)
             to == Seal(Onward(d, ms))
  <1>4. IF ms # <<>> /\ ms[Len(ms)].k = "newkeys" THEN to = <<d.key + 1, 0>>
        ELSE to = Seal(Moved(d, Len(ms)))
    BY NewDir DEF Onward
  <1>5. r = q \o Sealed(d, ms)
    OBVIOUS
  <1> HIDE DEF r, to
  <1>6. Chain(r, from, to)
    BY <1>4, <1>5, ChainPut DEF Sendable
  <1> QED  BY <1>3, <1>6 DEF r, to

LEMMA ChainRead ==
    ASSUME NEW q, NEW d, d \in Dirs, NEW to, Chain(q, Seal(d), to), q # <<>>
    PROVE  Chain(Tail(q), Seal(Past(d, Head(q).m)), to) /\ Past(d, Head(q).m) \in Dirs
  <1>1. Chain(Tail(q), After(q[1]), to) /\ q[1].seal = Seal(d) /\ Head(q) = q[1]
    BY ChainTail
  <1>2. Past(d, q[1].m) \in Dirs
    BY NewDir, MovedIs DEF Past
  <1>3. After(q[1]) = Seal(Past(d, q[1].m))
    <2>1. CASE q[1].m.k = "newkeys"
      BY <1>1, <2>1, NewDir DEF After, Past, Seal
    <2>2. CASE q[1].m.k # "newkeys"
      BY <1>1, <2>2, ReadOne DEF Past
    <2> QED  BY <2>1, <2>2
  <1> QED  BY <1>1, <1>2, <1>3
--------------------------------------------------------------------------------
(* The invariant of the SSH session. *)

\* The records that the steps change fields of.
Shaped(c) ==
    c = [pc |-> c.pc, kex |-> c.kex, method |-> c.method, first |-> c.first, out |-> c.out,
         in |-> c.in, key |-> c.key, todo |-> c.todo, rounds |-> c.rounds, next |-> c.next]

ServerShaped(s) ==
    s = [kex |-> s.kex, held |-> s.held, rekeys |-> s.rekeys, out |-> s.out,
         in |-> s.in, chan |-> s.chan]

ClientShape == Shaped(cl) /\ cl.out \in Dirs /\ cl.in \in Dirs

ServerShape == ServerShaped(srv) /\ srv.out \in Dirs /\ srv.in \in Dirs

\* Each stream leads from its reader to its writer.
SshStreams ==
    /\ Chain(up, Seal(srv.in), Seal(cl.out))
    /\ Chain(down, Seal(cl.in), Seal(srv.out))

\* A wrong guess is the packet after its KEXINIT, so that the packet which is
\* thrown away unread never is the server's NEWKEYS.
GuessFollows(q) ==
    \A i \in 1..Len(q) : q[i].m.k = "kexinit" /\ q[i].m.v.guess =>
        i < Len(q) /\ q[i + 1].m.k = "guess"

GuessAhead == cl.kex = "guess" => down # <<>> /\ down[1].m.k = "guess"

\* A credential on its way was sealed with a key agreed on.
UpGuarded ==
    \A i \in 1..Len(up) : up[i].m.k \in {"auth", "info"} => up[i].seal[1] > 0 /\ cl.first

\* Once keys are agreed on they are those of a known host.
KnownHost ==
    /\ cl.first \/ cl.kex = "newkeys" => cl.out.key > 0 /\ Status(cl.key) = "known"
    /\ cl.pc \in {"service", "auth", "ready"} => cl.first

SshInv ==
    /\ ClientShape /\ ServerShape /\ SshStreams
    /\ GuessFollows(down) /\ GuessAhead /\ UpGuarded /\ KnownHost
--------------------------------------------------------------------------------
LEMMA Guarded ==
    ASSUME SshInv, NEW ms, \E T : ms \in Seq(T),
           \A i \in 1..Len(ms) : ms[i].k \in {"auth", "info"} => cl.first,
           up' = up \o Sealed(cl.out, ms), cl.first => cl'.first
    PROVE  UpGuarded'
  <1>1. PICK S, T : up \in Seq(S) /\ ms \in Seq(T)
    BY DEF SshInv, SshStreams, Chain
  <1>2. cl.out \in Dirs /\ UpGuarded /\ (cl.first => cl.out.key > 0)
    BY DEF SshInv, ClientShape, KnownHost
  <1>3. Joined(up, cl.out, ms, up')
    BY <1>1, <1>2, PutElements
  <1>4. ASSUME NEW i \in 1..Len(up'), up'[i].m.k \in {"auth", "info"}
        PROVE  up'[i].seal[1] > 0 /\ cl'.first
    <2>0. /\ Len(up) \in Nat /\ Len(ms) \in Nat /\ Len(up') = Len(up) + Len(ms)
          /\ \A n \in 1..Len(up) : up'[n] = up[n]
          /\ \A j \in 1..Len(ms) : /\ up'[Len(up) + j].m = ms[j]
                                   /\ up'[Len(up) + j].seal[1] = cl.out.key
      BY <1>3 DEF Joined
    <2>1. CASE i <= Len(up)
      BY <1>2, <1>4, <2>0, <2>1 DEF UpGuarded
    <2>2. CASE i > Len(up)
      <3>1. i - Len(up) \in 1..Len(ms) /\ Len(up) + (i - Len(up)) = i
        BY <2>0, <2>2
      <3>2. up'[i].m = ms[i - Len(up)] /\ up'[i].seal[1] = cl.out.key
        BY <2>0, <3>1
      <3> QED  BY <1>2, <1>4, <3>1, <3>2
    <2> QED  BY <2>0, <2>1, <2>2
  <1> QED  BY <1>4 DEF UpGuarded

LEMMA TailGuesses ==
    ASSUME NEW q, \E S : q \in Seq(S), q # <<>>, GuessFollows(q)
    PROVE  /\ GuessFollows(Tail(q))
           /\ Head(q).m.k = "kexinit" /\ Head(q).m.v.guess =>
                  Tail(q) # <<>> /\ Tail(q)[1].m.k = "guess"
  <1>1. PICK S : q \in Seq(S)
    OBVIOUS
  <1> DEFINE t == Tail(q)
  <1>2. /\ t \in Seq(S) /\ Len(q) \in Nat /\ Len(q) >= 1 /\ Len(t) = Len(q) - 1 /\ Head(q) = q[1]
        /\ \A i \in 1..Len(t) : t[i] = q[i + 1]
    BY <1>1
  <1> HIDE DEF t
  <1>3. t = <<>> <=> Len(t) = 0
    BY <1>2
  <1>4. ASSUME NEW i \in 1..Len(t), t[i].m.k = "kexinit", t[i].m.v.guess
        PROVE  i < Len(t) /\ t[i + 1].m.k = "guess"
    <2>1. i + 1 \in 1..Len(q) /\ t[i] = q[i + 1]
      BY <1>2
    <2>2. i + 1 < Len(q) /\ q[(i + 1) + 1].m.k = "guess"
      BY <1>4, <2>1 DEF GuessFollows
    <2>3. i < Len(t) /\ i + 1 \in 1..Len(t)
      BY <1>2, <2>2
    <2> QED  BY <1>2, <2>2, <2>3
  <1>5. GuessFollows(t)
    BY <1>4 DEF GuessFollows
  <1>6. ASSUME q[1].m.k = "kexinit", q[1].m.v.guess PROVE t # <<>> /\ t[1].m.k = "guess"
    <2>1. 1 \in 1..Len(q)
      BY <1>2
    <2>2. 1 < Len(q) /\ q[1 + 1].m.k = "guess"
      BY <1>6, <2>1 DEF GuessFollows
    <2>3. Len(t) # 0 /\ 1 \in 1..Len(t)
      BY <1>2, <2>2
    <2> QED  BY <1>2, <1>3, <2>2, <2>3
  <1> QED  BY <1>2, <1>5, <1>6 DEF t

LEMMA Singles ==
    ASSUME NEW k, NEW c, NEW v, NEW d
    PROVE  /\ Sendable(<<M(k, c, v)>>) /\ Onward(d, <<M(k, c, v)>>) = Past(d, M(k, c, v))
           /\ Len(<<M(k, c, v)>>) = 1 /\ <<M(k, c, v)>>[1] = M(k, c, v)
           /\ M(k, c, v).k = k /\ M(k, c, v).v = v
  <1> DEFINE m == M(k, c, v)
             ms == <<m>>
  <1>1. m.k = k /\ m.v = v
    BY DEF M
  <1> HIDE DEF m
  <1>2. ms \in Seq({m}) /\ Len(ms) = 1 /\ ms[1] = m /\ ms # <<>>
    OBVIOUS
  <1> HIDE DEF ms
  <1>3. Sendable(ms)
    BY <1>2 DEF Sendable
  <1>4. Onward(d, ms) = Past(d, m)
    BY <1>2 DEF Onward, Past
  <1> QED  BY <1>1, <1>2, <1>3, <1>4 DEF ms, m

LEMMA PlainSent ==
    ASSUME NEW ms, Plain(ms), NEW d
    PROVE  /\ Sendable(ms) /\ Onward(d, ms) = Moved(d, Len(ms)) /\ Len(ms) \in Nat
           /\ \A i \in 1..Len(ms) : ms[i].k \notin {"auth", "info"}
  <1>1. PICK T : ms \in Seq(T)
    BY DEF Plain
  <1>2. Len(ms) \in Nat /\ (ms # <<>> => Len(ms) \in 1..Len(ms))
    BY <1>1
  <1>3. \A i \in 1..Len(ms) : ms[i].k \notin Special
    BY DEF Plain
  <1>4. Onward(d, ms) = Moved(d, Len(ms))
    BY <1>2, <1>3 DEF Onward, Special
  <1> QED  BY <1>1, <1>2, <1>3, <1>4 DEF Sendable, Special

LEMMA SentNone ==
    ASSUME NEW q, NEW from, NEW to, Chain(q, from, to), NEW d, d \in Dirs
    PROVE  q \o Sealed(d, <<>>) = q /\ Onward(d, <<>>) = d /\ Sendable(<<>>)
  <1>1. PICK S : q \in Seq(S)
    BY DEF Chain
  <1>2. DOMAIN <<>> = {} /\ Len(<<>>) = 0 /\ <<>> \in Seq({})
    OBVIOUS
  <1>3. Sealed(d, <<>>) = <<>>
    BY <1>2 DEF Sealed
  <1>4. q \o <<>> = q
    BY <1>1
  <1>5. Onward(d, <<>>) = Moved(d, 0)
    BY <1>2 DEF Onward
  <1>6. Sendable(<<>>)
    BY <1>2 DEF Sendable
  <1> QED  BY <1>3, <1>4, <1>5, <1>6, MovedIs

LEMMA ClientKeeps ==
    ASSUME SshInv, NEW ms, Sendable(ms), Sends(ms), srv' = srv, Shaped(cl'),
           cl'.out = Onward(cl.out, ms),
           \/ down' = down /\ cl'.in = cl.in
           \/ down # <<>> /\ down' = Tail(down) /\ cl'.in = Past(cl.in, Msg),
           \A i \in 1..Len(ms) : ms[i].k \in {"auth", "info"} => cl.first,
           cl.first => cl'.first, GuessAhead', KnownHost'
    PROVE  SshInv'
  <1>1. /\ cl.out \in Dirs /\ cl.in \in Dirs
        /\ Chain(up, Seal(srv.in), Seal(cl.out)) /\ Chain(down, Seal(cl.in), Seal(srv.out))
        /\ GuessFollows(down) /\ ServerShape
    BY DEF SshInv, ClientShape, SshStreams
  <1>2. Chain(up', Seal(srv.in), Seal(cl'.out)) /\ cl'.out \in Dirs
    BY <1>1, ChainSent DEF Sends
  <1>3. Chain(down', Seal(cl'.in), Seal(srv.out)) /\ cl'.in \in Dirs
    BY <1>1, ChainRead DEF Msg
  <1>4. GuessFollows(down')
    <2>1. \E S : down \in Seq(S)
      BY <1>1 DEF Chain
    <2> QED  BY <1>1, <2>1, TailGuesses
  <1>5. UpGuarded'
    <2>1. \E T : ms \in Seq(T)
      BY DEF Sendable
    <2> QED  BY <2>1, Guarded DEF Sends
  <1>6. ClientShape' /\ ServerShape'
    BY <1>1, <1>2, <1>3 DEF ClientShape, ServerShape, Shaped
  <1>7. SshStreams'
    BY <1>2, <1>3 DEF SshStreams
  <1> QED  BY <1>4, <1>5, <1>6, <1>7 DEF SshInv, GuessFollows

\* A step that only sends.
LEMMA GoesKeeps ==
    ASSUME SshInv, NEW ms, Plain(ms), NEW x, Goes(ms, x)
    PROVE  SshInv'
  <1>1. Shaped(cl) /\ cl.out \in Dirs
    BY DEF SshInv, ClientShape, Shaped
  <1>2. /\ cl' = [cl EXCEPT !.out = Moved(cl.out, Len(ms))] /\ down' = down /\ srv' = srv /\ Sends(ms)
    BY DEF Goes
  <1>3. /\ Shaped(cl') /\ cl'.out = Moved(cl.out, Len(ms)) /\ cl'.in = cl.in
        /\ cl'.pc = cl.pc /\ cl'.kex = cl.kex /\ cl'.first = cl.first /\ cl'.key = cl.key
    BY <1>1, <1>2 DEF Shaped
  <1>4. /\ Sendable(ms) /\ cl'.out = Onward(cl.out, ms)
        /\ \A i \in 1..Len(ms) : ms[i].k \notin {"auth", "info"}
    BY <1>3, PlainSent
  <1>5. cl'.out.key = cl.out.key
    <2>1. Len(ms) \in Nat
      BY PlainSent
    <2> QED  BY <1>1, <1>3, <2>1, MovedIs
  <1>6. GuessAhead'
    BY <1>2, <1>3 DEF SshInv, GuessAhead
  <1>7. KnownHost'
    BY <1>3, <1>5 DEF SshInv, KnownHost, Status
  <1> QED  BY <1>2, <1>3, <1>4, <1>6, <1>7, ClientKeeps
LEMMA NothingSent ==
    ASSUME SshInv
    PROVE  /\ up \o Sealed(cl.out, <<>>) = up /\ Onward(cl.out, <<>>) = cl.out
           /\ down \o Sealed(srv.out, <<>>) = down /\ Onward(srv.out, <<>>) = srv.out
           /\ Sendable(<<>>) /\ cl.in \in Dirs /\ cl.out \in Dirs /\ srv.in \in Dirs /\ srv.out \in Dirs
  BY SentNone DEF SshInv, ClientShape, ServerShape, SshStreams

\* Nothing is on its way after the end of the session.
LEMMA DiesKeeps ==
    ASSUME Dies
    PROVE  SshInv'
  <1>1. New \in Dirs
    BY Space DEF New, Dirs
  <1>2. /\ cl' = [Closed EXCEPT !.pc = "dead"] /\ srv' = [NewServer EXCEPT !.rekeys = Rekeys]
        /\ up' = <<>> /\ down' = <<>>
    BY DEF Dies
  <1>3. /\ Shaped(cl') /\ cl'.out = New /\ cl'.in = New /\ cl'.first = FALSE /\ cl'.kex = "none"
        /\ cl'.pc = "dead"
    BY <1>2 DEF Shaped, Closed
  <1>4. srv'.out = New /\ srv'.in = New
    BY <1>2 DEF NewServer
  <1>5. ServerShaped(srv)'
    BY <1>2 DEF NewServer, ServerShaped
  <1>6. <<>> \in Seq({}) /\ \A i \in 1..Len(<<>>) : FALSE
    OBVIOUS
  <1>7. SshStreams'
    BY <1>2, <1>3, <1>4, <1>6 DEF SshStreams, Chain
  <1>8. GuessFollows(down)' /\ UpGuarded'
    BY <1>2, <1>6 DEF GuessFollows, UpGuarded
  <1>9. GuessAhead' /\ KnownHost'
    BY <1>3 DEF GuessAhead, KnownHost
  <1> QED  BY <1>1, <1>3, <1>4, <1>5, <1>7, <1>8, <1>9 DEF SshInv, ClientShape, ServerShape

\* A step that reads a packet which is not NEWKEYS and may send.
LEMMA ReadingKeeps ==
    ASSUME SshInv, NEW ms, Plain(ms), Sends(ms), down # <<>>, Taken, srv' = srv,
           Msg.k # "newkeys", Shaped(cl'), cl'.out = Moved(cl.out, Len(ms)), cl'.in = Moved(cl.in, 1),
           cl.first => cl'.first, GuessAhead', KnownHost'
    PROVE  SshInv'
  <1>1. /\ Sendable(ms) /\ Onward(cl.out, ms) = Moved(cl.out, Len(ms)) /\ Len(ms) \in Nat
        /\ \A i \in 1..Len(ms) : ms[i].k \notin {"auth", "info"}
    BY PlainSent
  <1>2. Past(cl.in, Msg) = Moved(cl.in, 1)
    BY DEF Past
  <1> QED  BY <1>1, <1>2, ClientKeeps DEF Taken

\* The transport after a packet was read.
LEMMA TurnIs ==
    ASSUME SshInv, NEW n \in Nat
    PROVE  /\ Shaped(Turn(n)) /\ Turn(n).pc = cl.pc /\ Turn(n).kex = cl.kex /\ Turn(n).method = cl.method
           /\ Turn(n).first = cl.first /\ Turn(n).key = cl.key /\ Turn(n).in = Moved(cl.in, 1)
           /\ Turn(n).out = Moved(cl.out, n) /\ Turn(n).out.key = cl.out.key
  <1>1. Shaped(cl) /\ cl.out \in Dirs
    BY DEF SshInv, ClientShape, Shaped
  <1> DEFINE t == Turn(n)
  <1>t. t = [cl EXCEPT !.in = Moved(cl.in, 1), !.out = Moved(cl.out, n)]
    BY DEF Turn
  <1> HIDE DEF t
  <1>2. /\ Shaped(t) /\ t.pc = cl.pc /\ t.kex = cl.kex /\ t.method = cl.method
        /\ t.first = cl.first /\ t.key = cl.key /\ t.in = Moved(cl.in, 1) /\ t.out = Moved(cl.out, n)
    BY <1>1, <1>t DEF Shaped
  <1>3. Moved(cl.out, n).key = cl.out.key
    BY <1>1, MovedIs
  <1> QED  BY <1>2, <1>3 DEF t

LEMMA OpenKeeps == SshInv /\ Open => SshInv'
  <1> SUFFICES ASSUME SshInv, Open PROVE SshInv'
    OBVIOUS
  <1>1. Shaped(cl) /\ cl.out \in Dirs
    BY DEF SshInv, ClientShape, Shaped
  <1>2. /\ cl' = [cl EXCEPT !.pc = "open", !.kex = "init", !.out = Moved(cl.out, 1)] /\ down' = down
        /\ srv' = srv /\ Sends(OurKexinit)
    BY DEF Open, Quiet
  <1>3. /\ Shaped(cl') /\ cl'.out = Moved(cl.out, 1) /\ cl'.in = cl.in
        /\ cl'.pc = "open" /\ cl'.kex = "init" /\ cl'.first = cl.first /\ cl'.key = cl.key
    BY <1>1, <1>2 DEF Shaped
  <1>4. Plain(OurKexinit) /\ Len(OurKexinit) = 1
    BY PlainOnes DEF OurKexinit, Special
  <1>5. /\ Sendable(OurKexinit) /\ Onward(cl.out, OurKexinit) = Moved(cl.out, 1)
        /\ \A i \in 1..Len(OurKexinit) : OurKexinit[i].k \notin {"auth", "info"}
    BY <1>4, PlainSent
  <1>6. Moved(cl.out, 1).key = cl.out.key
    BY <1>1, MovedIs
  <1>7. KnownHost' /\ GuessAhead'
    BY <1>3, <1>6 DEF SshInv, KnownHost, Status, GuessAhead
  <1> QED  BY <1>2, <1>3, <1>5, <1>7, ClientKeeps

\* A packet that is read opens under the reader's key and number.
LEMMA Reading ==
    ASSUME SshInv, NEW k, Reads(k)
    PROVE  down # <<>> /\ Msg.k = k /\ Msg = down[1].m
  <1>1. down # <<>> /\ Msg.k = k
    BY DEF Reads, Packet
  <1>2. PICK S : down \in Seq(S)
    BY DEF SshInv, SshStreams, Chain
  <1>3. Head(down) = down[1]
    BY <1>1, <1>2
  <1> QED  BY <1>1, <1>3 DEF Msg

LEMMA ReadKexinitKeeps == SshInv /\ ReadKexinit => SshInv'
  <1> SUFFICES ASSUME SshInv, ReadKexinit PROVE SshInv'
    OBVIOUS
  <1> DEFINE mine == IF cl.first THEN OurKexinit ELSE <<>>
             offer == Msg.v
             more == IF offer.guess THEN <<>> ELSE <<Method(offer)>>
             ms == mine \o more
             next == IF offer.guess THEN "guess" ELSE IF offer.method = "gex" THEN "group" ELSE "reply"
  <1>1. down # <<>> /\ Msg.k = "kexinit" /\ Msg = down[1].m
    BY Reading DEF ReadKexinit
  <1>2. CASE Dies
    BY <1>2, DiesKeeps
  <1>3. CASE /\ Sends(ms) /\ Aside
             /\ cl' = [Turn(Len(ms)) EXCEPT !.method = offer.method, !.kex = next]
    <2>1. Plain(mine)
      BY PlainOnes DEF OurKexinit, Special
    <2>2. Plain(more)
      BY PlainOnes DEF Method, Special
    <2>3. Plain(ms)
      BY <2>1, <2>2, PlainOnes
    <2>4. Sends(ms) /\ Aside /\ cl' = [Turn(Len(ms)) EXCEPT !.method = offer.method, !.kex = next]
      BY <1>3
    <2>5. next = "guess" => offer.guess
      OBVIOUS
    <2>6. next # "newkeys"
      OBVIOUS
    <2> HIDE DEF mine, more, ms, next
    <2>7. Len(ms) \in Nat
      BY <2>3, PlainSent
    <2>8. /\ Shaped(cl') /\ cl'.pc = cl.pc /\ cl'.kex = next
          /\ cl'.first = cl.first /\ cl'.key = cl.key
          /\ cl'.in = Moved(cl.in, 1) /\ cl'.out = Moved(cl.out, Len(ms)) /\ cl'.out.key = cl.out.key
      <3> DEFINE t == Turn(Len(ms))
      <3>1. /\ Shaped(t) /\ t.pc = cl.pc /\ t.first = cl.first /\ t.key = cl.key
            /\ t.in = Moved(cl.in, 1) /\ t.out = Moved(cl.out, Len(ms)) /\ t.out.key = cl.out.key
        BY <2>7, TurnIs
      <3>2. cl' = [t EXCEPT !.method = offer.method, !.kex = next]
        BY <2>4
      <3> HIDE DEF t
      <3> QED  BY <3>1, <3>2 DEF Shaped
    <2>9. srv' = srv /\ Taken
      BY <2>4 DEF Aside, Quiet
    <2>10. GuessAhead'
      <3>1. \E S : down \in Seq(S)
        BY DEF SshInv, SshStreams, Chain
      <3>2. offer.guess => Tail(down) # <<>> /\ Tail(down)[1].m.k = "guess"
        BY <1>1, <3>1, TailGuesses DEF SshInv, Msg
      <3> QED  BY <2>5, <2>8, <2>9, <3>2 DEF GuessAhead, Taken
    <2>11. KnownHost'
      BY <2>6, <2>8 DEF SshInv, KnownHost, Status
    <2> QED  BY <1>1, <2>3, <2>4, <2>8, <2>9, <2>10, <2>11, ReadingKeeps
  <1> QED  BY <1>2, <1>3 DEF ReadKexinit

LEMMA DropGuessKeeps == SshInv /\ DropGuess => SshInv'
  <1> SUFFICES ASSUME SshInv, DropGuess PROVE SshInv'
    OBVIOUS
  <1> DEFINE m == Method([method |-> cl.method])
             next == IF cl.method = "gex" THEN "group" ELSE "reply"
  <1>1. down # <<>> /\ Msg.k = "guess"
    <2>1. PICK S : down \in Seq(S)
      BY DEF SshInv, SshStreams, Chain
    <2>2. down # <<>> /\ down[1].m.k = "guess"
      BY DEF DropGuess, SshInv, GuessAhead
    <2>3. Head(down) = down[1]
      BY <2>1, <2>2
    <2> QED  BY <2>2, <2>3 DEF Msg
  <1>2. Plain(<<m>>) /\ Len(<<m>>) = 1
    BY PlainOnes DEF Method, Special
  <1>3. Sends(<<m>>) /\ srv' = srv /\ Taken /\ cl' = [Turn(1) EXCEPT !.kex = next]
    BY DEF DropGuess, Aside, Quiet
  <1>4. next # "guess" /\ next # "newkeys"
    OBVIOUS
  <1> HIDE DEF m, next
  <1>5. /\ Shaped(cl') /\ cl'.pc = cl.pc /\ cl'.kex = next
        /\ cl'.first = cl.first /\ cl'.key = cl.key
        /\ cl'.in = Moved(cl.in, 1) /\ cl'.out = Moved(cl.out, 1) /\ cl'.out.key = cl.out.key
    <2> DEFINE t == Turn(1)
    <2>1. /\ Shaped(t) /\ t.pc = cl.pc /\ t.kex = cl.kex /\ t.first = cl.first /\ t.key = cl.key
          /\ t.in = Moved(cl.in, 1) /\ t.out = Moved(cl.out, 1) /\ t.out.key = cl.out.key
      BY TurnIs
    <2>2. cl' = [t EXCEPT !.kex = next]
      BY <1>3
    <2> HIDE DEF t
    <2> QED  BY <2>1, <2>2 DEF Shaped
  <1>6. GuessAhead' /\ KnownHost'
    BY <1>4, <1>5 DEF SshInv, GuessAhead, KnownHost, Status
  <1> QED  BY <1>1, <1>2, <1>3, <1>5, <1>6, ReadingKeeps

LEMMA ReadGroupKeeps == SshInv /\ ReadGroup => SshInv'
  <1> SUFFICES ASSUME SshInv, ReadGroup PROVE SshInv'
    OBVIOUS
  <1>1. down # <<>> /\ Msg.k = "group"
    BY Reading DEF ReadGroup
  <1> DEFINE ms == <<M("gexinit", 0, 0)>>
  <1>2. Plain(ms) /\ Len(ms) = 1
    BY PlainOnes DEF Special
  <1>3. CASE Dies
    BY <1>3, DiesKeeps
  <1>4. CASE Sends(ms) /\ Aside /\ cl' = [Turn(1) EXCEPT !.kex = "reply"]
    <2>1. Sends(ms) /\ Taken /\ srv' = srv /\ cl' = [Turn(1) EXCEPT !.kex = "reply"]
      BY <1>4 DEF Aside, Quiet
    <2> HIDE DEF ms
    <2>2. /\ Shaped(cl') /\ cl'.pc = cl.pc /\ cl'.kex = "reply"
          /\ cl'.first = cl.first /\ cl'.key = cl.key
          /\ cl'.in = Moved(cl.in, 1) /\ cl'.out = Moved(cl.out, 1) /\ cl'.out.key = cl.out.key
      <3> DEFINE t == Turn(1)
      <3>1. /\ Shaped(t) /\ t.pc = cl.pc /\ t.kex = cl.kex /\ t.first = cl.first /\ t.key = cl.key
            /\ t.in = Moved(cl.in, 1) /\ t.out = Moved(cl.out, 1) /\ t.out.key = cl.out.key
        BY TurnIs
      <3>2. cl' = [t EXCEPT !.kex = "reply"]
        BY <2>1
      <3> HIDE DEF t
      <3> QED  BY <3>1, <3>2 DEF Shaped
    <2>3. GuessAhead' /\ KnownHost'
      BY <2>2 DEF SshInv, GuessAhead, KnownHost, Status
    <2> QED  BY <1>1, <1>2, <2>1, <2>2, <2>3, ReadingKeeps
  <1> QED  BY <1>3, <1>4 DEF ReadGroup

LEMMA ReadReplyKeeps == SshInv /\ ReadReply => SshInv'
  <1> SUFFICES ASSUME SshInv, ReadReply PROVE SshInv'
    OBVIOUS
  <1>1. down # <<>> /\ Msg.k = "reply"
    BY Reading DEF ReadReply
  <1>2. CASE Dies
    BY <1>2, DiesKeeps
  <1> DEFINE m == M("newkeys", 0, 0)
             k == Msg.v.key
  <1>3. CASE /\ host_key_trusted(k) /\ Sends(<<m>>) /\ Aside
             /\ cl' = [Turn(1) EXCEPT !.kex = "newkeys", !.key = k, !.out = Rekeyed(@)]
    <2>1. /\ Sends(<<m>>) /\ Taken /\ srv' = srv /\ host_key_trusted(k)
          /\ cl' = [Turn(1) EXCEPT !.kex = "newkeys", !.key = k, !.out = Rekeyed(@)]
      BY <1>3 DEF Aside, Quiet
    <2>2. /\ Sendable(<<m>>) /\ Onward(cl.out, <<m>>) = Past(cl.out, m)
          /\ m.k = "newkeys" /\ Len(<<m>>) = 1 /\ <<m>>[1] = m
      BY Singles
    <2> HIDE DEF m, k
    <2>3. /\ Shaped(cl') /\ cl'.pc = cl.pc /\ cl'.kex = "newkeys" /\ cl'.first = cl.first /\ cl'.key = k
          /\ cl'.in = Moved(cl.in, 1) /\ cl'.out = [key |-> cl.out.key + 1, seq |-> 0]
      <3> DEFINE t == Turn(1)
      <3>1. /\ Shaped(t) /\ t.pc = cl.pc /\ t.kex = cl.kex /\ t.first = cl.first /\ t.key = cl.key
            /\ t.in = Moved(cl.in, 1) /\ t.out = Moved(cl.out, 1) /\ t.out.key = cl.out.key
        BY TurnIs
      <3>2. cl' = [t EXCEPT !.kex = "newkeys", !.key = k, !.out = Rekeyed(@)]
        BY <2>1
      <3> HIDE DEF t
      <3> QED  BY <3>1, <3>2 DEF Shaped, Rekeyed
    <2>4. Onward(cl.out, <<m>>) = cl'.out
      BY <2>2, <2>3 DEF Past
    <2>5. Past(cl.in, Msg) = cl'.in
      BY <1>1, <2>3 DEF Past
    <2>6. cl'.out.key > 0
      <3>1. cl.out.key \in Nat
        BY DEF SshInv, ClientShape, Dirs
      <3> QED  BY <2>3, <3>1
    <2>7. Status(k) = "known"
      BY <2>1 DEF host_key_trusted, SshInv, KnownHost
    <2>8. Status(cl'.key) = "known"
      BY <2>3, <2>7
    <2>9. GuessAhead' /\ KnownHost'
      BY <2>3, <2>6, <2>8 DEF SshInv, GuessAhead, KnownHost, Status
    <2>10. \A i \in 1..Len(<<m>>) : <<m>>[i].k \notin {"auth", "info"}
      BY <2>2
    <2> QED  BY <1>1, <2>1, <2>2, <2>3, <2>4, <2>5, <2>9, <2>10, ClientKeeps DEF Taken
  <1> QED  BY <1>2, <1>3 DEF ReadReply

LEMMA ReadNewkeysKeeps == SshInv /\ ReadNewkeys => SshInv'
  <1> SUFFICES ASSUME SshInv, ReadNewkeys PROVE SshInv'
    OBVIOUS
  <1> DEFINE after == [Turn(0) EXCEPT !.kex = "none", !.method = "none", !.first = TRUE,
                                      !.in = Rekeyed(@)]
  <1>1. down # <<>> /\ Msg.k = "newkeys" /\ cl.kex = "newkeys"
    BY Reading DEF ReadNewkeys
  <1>2. /\ Shaped(after) /\ after.pc = cl.pc /\ after.kex = "none" /\ after.first /\ after.key = cl.key
        /\ after.in = [key |-> cl.in.key + 1, seq |-> 0] /\ after.out = cl.out
    <2> DEFINE t == Turn(0)
    <2>1. /\ Shaped(t) /\ t.pc = cl.pc /\ t.key = cl.key
          /\ t.in = Moved(cl.in, 1) /\ t.out = Moved(cl.out, 0)
      BY TurnIs
    <2>2. Moved(cl.in, 1).key = cl.in.key /\ Moved(cl.out, 0) = cl.out
      BY NothingSent, MovedIs
    <2> HIDE DEF t
    <2> DEFINE a == [t EXCEPT !.kex = "none", !.method = "none", !.first = TRUE, !.in = Rekeyed(@)]
    <2>a. a = [t EXCEPT !.kex = "none", !.method = "none", !.first = TRUE,
                     !.in = Rekeyed(Moved(cl.in, 1))]
      BY <2>1
    <2> HIDE DEF a
    <2>3. /\ Shaped(a) /\ a.pc = cl.pc /\ a.kex = "none" /\ a.first /\ a.key = cl.key
          /\ a.in = Rekeyed(Moved(cl.in, 1)) /\ a.out = cl.out
      BY <2>1, <2>2, <2>a DEF Shaped
    <2>4. Rekeyed(Moved(cl.in, 1)) = [key |-> cl.in.key + 1, seq |-> 0]
      BY <2>2 DEF Rekeyed
    <2> QED  BY <2>3, <2>4 DEF t, a
  <1>3. cl.pc = "open" => /\ Sends(<<M("service", 0, 0)>>)
                          /\ cl' = [after EXCEPT !.pc = "service", !.out = Moved(@, 1)]
    BY DEF ReadNewkeys
  <1>4. cl.pc # "open" => up' = up /\ cl' = after
    BY DEF ReadNewkeys
  <1>5. Taken /\ srv' = srv
    BY DEF ReadNewkeys, Aside, Quiet
  <1> HIDE DEF after
  <1>6. Past(cl.in, Msg) = after.in
    BY <1>1, <1>2 DEF Past
  <1>7. CASE cl.pc = "open"
    <2> DEFINE ms == <<M("service", 0, 0)>>
    <2>1. Plain(ms) /\ Len(ms) = 1
      BY PlainOnes DEF Special
    <2>2. Sends(ms) /\ cl' = [after EXCEPT !.pc = "service", !.out = Moved(@, 1)]
      BY <1>3, <1>7
    <2> HIDE DEF ms
    <2>3. /\ Shaped(cl') /\ cl'.pc = "service" /\ cl'.kex = "none" /\ cl'.first /\ cl'.key = cl.key
          /\ cl'.in = after.in /\ cl'.out = Moved(cl.out, 1)
      BY <1>2, <2>2 DEF Shaped
    <2>4. /\ Sendable(ms) /\ Onward(cl.out, ms) = cl'.out
          /\ \A i \in 1..Len(ms) : ms[i].k \notin {"auth", "info"}
      BY <2>1, <2>3, PlainSent
    <2>5. cl'.out.key = cl.out.key
      <3>1. Moved(cl.out, 1).key = cl.out.key
        BY NothingSent, MovedIs
      <3> QED  BY <2>3, <3>1
    <2>6. GuessAhead' /\ KnownHost'
      BY <1>1, <2>3, <2>5 DEF SshInv, GuessAhead, KnownHost, Status
    <2> QED  BY <1>1, <1>5, <1>6, <2>2, <2>3, <2>4, <2>6, ClientKeeps DEF Taken
  <1>8. CASE cl.pc # "open"
    <2>1. /\ Shaped(cl') /\ cl'.pc = cl.pc /\ cl'.kex = "none" /\ cl'.first /\ cl'.key = cl.key
          /\ cl'.in = after.in /\ cl'.out = cl.out
      BY <1>2, <1>4, <1>8
    <2>2. Sends(<<>>) /\ Sendable(<<>>) /\ Onward(cl.out, <<>>) = cl'.out
      BY <1>4, <1>8, <2>1, NothingSent DEF Sends
    <2>3. \A i \in 1..Len(<<>>) : FALSE
      OBVIOUS
    <2>4. GuessAhead' /\ KnownHost'
      BY <1>1, <2>1 DEF SshInv, GuessAhead, KnownHost, Status
    <2> QED  BY <1>1, <1>5, <1>6, <2>1, <2>2, <2>3, <2>4, ClientKeeps DEF Taken
  <1> QED  BY <1>7, <1>8

LEMMA ReadNoiseKeeps == SshInv /\ ReadNoise => SshInv'
  <1> SUFFICES ASSUME SshInv, ReadNoise PROVE SshInv'
    OBVIOUS
  <1> DEFINE ms == <<M("no", 0, 0)>>
  <1>1. down # <<>> /\ Msg.k = "global"
    BY Reading DEF ReadNoise
  <1>2. Plain(ms) /\ Len(ms) = 1
    BY PlainOnes DEF Special
  <1>3. Sends(ms) /\ Taken /\ srv' = srv /\ cl' = Turn(1) /\ cl.kex = "none"
    BY DEF ReadNoise, Receiving, Aside, Quiet
  <1> HIDE DEF ms
  <1>4. /\ Shaped(cl') /\ cl'.pc = cl.pc /\ cl'.kex = cl.kex
        /\ cl'.first = cl.first /\ cl'.key = cl.key
        /\ cl'.in = Moved(cl.in, 1) /\ cl'.out = Moved(cl.out, 1) /\ cl'.out.key = cl.out.key
    BY <1>3, TurnIs
  <1>5. GuessAhead' /\ KnownHost'
    BY <1>3, <1>4 DEF SshInv, GuessAhead, KnownHost, Status
  <1> QED  BY <1>1, <1>2, <1>3, <1>4, <1>5, ReadingKeeps

\* A credential is only sent once the keys are agreed on.
LEMMA CredentialKeeps ==
    ASSUME SshInv, NEW k, k \in {"auth", "info"}, NEW v, Sends(<<M(k, 0, v)>>),
           down # <<>>, Taken, srv' = srv, Msg.k # "newkeys", cl.first, cl.kex = "none",
           Shaped(cl'), cl'.kex = cl.kex, cl'.first = cl.first, cl'.key = cl.key,
           cl'.in = Moved(cl.in, 1), cl'.out = Moved(cl.out, 1), cl'.out.key = cl.out.key
    PROVE  SshInv'
  <1> DEFINE m == M(k, 0, v)
  <1>1. Sendable(<<m>>) /\ Onward(cl.out, <<m>>) = Past(cl.out, m) /\ m.k = k
    BY Singles
  <1>2. Sends(<<m>>)
    OBVIOUS
  <1> HIDE DEF m
  <1>3. Onward(cl.out, <<m>>) = cl'.out /\ Past(cl.in, Msg) = cl'.in
    BY <1>1 DEF Past
  <1>4. GuessAhead' /\ KnownHost'
    BY DEF SshInv, GuessAhead, KnownHost, Status
  <1> QED  BY <1>1, <1>2, <1>3, <1>4, ClientKeeps DEF Taken

LEMMA ReadAcceptKeeps == SshInv /\ ReadAccept => SshInv'
  <1> SUFFICES ASSUME SshInv, ReadAccept PROVE SshInv'
    OBVIOUS
  <1>1. down # <<>> /\ Msg.k = "accept" /\ cl.kex = "none" /\ cl.first
    BY Reading DEF ReadAccept, SshInv, KnownHost
  <1>2. CASE KeyUnreadable
    BY <1>2, DiesKeeps DEF KeyUnreadable
  <1>3. ASSUME NEW todo \in Credentials, Sends(Request(Head(todo))), Aside,
               cl' = [Turn(1) EXCEPT !.pc = "auth", !.todo = todo]
        PROVE  SshInv'
    <2>1. /\ Shaped(cl') /\ cl'.pc = "auth" /\ cl'.kex = cl.kex
          /\ cl'.first = cl.first /\ cl'.key = cl.key
          /\ cl'.in = Moved(cl.in, 1) /\ cl'.out = Moved(cl.out, 1) /\ cl'.out.key = cl.out.key
      <3> DEFINE t == Turn(1)
      <3>1. /\ Shaped(t) /\ t.pc = cl.pc /\ t.kex = cl.kex /\ t.first = cl.first /\ t.key = cl.key
            /\ t.in = Moved(cl.in, 1) /\ t.out = Moved(cl.out, 1) /\ t.out.key = cl.out.key
        BY TurnIs
      <3>2. cl' = [t EXCEPT !.pc = "auth", !.todo = todo]
        BY <1>3
      <3> HIDE DEF t
      <3> QED  BY <3>1, <3>2 DEF Shaped
    <2>2. Sends(<<M("auth", 0, Head(todo))>>) /\ Taken /\ srv' = srv
      BY <1>3 DEF Request, Aside, Quiet
    <2> QED  BY <1>1, <2>1, <2>2, CredentialKeeps
  <1> QED  BY <1>2, <1>3 DEF ReadAccept

LEMMA NextMethodKeeps ==
    ASSUME SshInv, down # <<>>, Msg.k # "newkeys", cl.kex = "none", cl.first, NextMethod
    PROVE  SshInv'
  <1>1. CASE Dies
    BY <1>1, DiesKeeps
  <1>2. CASE Sends(Request(cl.todo[2])) /\ Aside /\ cl' = [Turn(1) EXCEPT !.todo = Tail(@)]
    <2>1. /\ Shaped(cl') /\ cl'.pc = cl.pc /\ cl'.kex = cl.kex
          /\ cl'.first = cl.first /\ cl'.key = cl.key
          /\ cl'.in = Moved(cl.in, 1) /\ cl'.out = Moved(cl.out, 1) /\ cl'.out.key = cl.out.key
      <3> DEFINE t == Turn(1)
      <3>1. /\ Shaped(t) /\ t.pc = cl.pc /\ t.kex = cl.kex /\ t.first = cl.first /\ t.key = cl.key
            /\ t.in = Moved(cl.in, 1) /\ t.out = Moved(cl.out, 1) /\ t.out.key = cl.out.key
        BY TurnIs
      <3>2. cl' = [t EXCEPT !.todo = Tail(@)]
        BY <1>2
      <3> HIDE DEF t
      <3> QED  BY <3>1, <3>2 DEF Shaped
    <2>2. Sends(<<M("auth", 0, cl.todo[2])>>) /\ Taken /\ srv' = srv
      BY <1>2 DEF Request, Aside, Quiet
    <2> QED  BY <2>1, <2>2, CredentialKeeps
  <1> QED  BY <1>1, <1>2 DEF NextMethod

LEMMA ReadVerdictKeeps == SshInv /\ ReadVerdict => SshInv'
  <1> SUFFICES ASSUME SshInv, ReadVerdict PROVE SshInv'
    OBVIOUS
  <1>1. cl.kex = "none" /\ cl.first
    BY DEF ReadVerdict, SshInv, KnownHost
  <1>2. CASE /\ Reads("success") /\ UNCHANGED up /\ Aside
             /\ cl' = [Turn(0) EXCEPT !.pc = "ready", !.todo = <<>>, !.rounds = 0]
    <2>1. down # <<>> /\ Msg.k = "success"
      BY <1>2, Reading
    <2>2. /\ Shaped(cl') /\ cl'.pc = "ready" /\ cl'.kex = cl.kex
          /\ cl'.first = cl.first /\ cl'.key = cl.key
          /\ cl'.in = Moved(cl.in, 1) /\ cl'.out = Moved(cl.out, 0) /\ cl'.out.key = cl.out.key
      <3> DEFINE t == Turn(0)
      <3>1. /\ Shaped(t) /\ t.pc = cl.pc /\ t.kex = cl.kex /\ t.first = cl.first /\ t.key = cl.key
            /\ t.in = Moved(cl.in, 1) /\ t.out = Moved(cl.out, 0) /\ t.out.key = cl.out.key
        BY TurnIs
      <3>2. cl' = [t EXCEPT !.pc = "ready", !.todo = <<>>, !.rounds = 0]
        BY <1>2
      <3> HIDE DEF t
      <3> QED  BY <3>1, <3>2 DEF Shaped
    <2>3. Sends(<<>>) /\ Plain(<<>>) /\ Len(<<>>) = 0
      BY <1>2, NothingSent, PlainOnes DEF Sends
    <2>4. Taken /\ srv' = srv
      BY <1>2 DEF Aside, Quiet
    <2>5. GuessAhead' /\ KnownHost'
      BY <1>1, <2>2 DEF SshInv, GuessAhead, KnownHost, Status
    <2> QED  BY <2>1, <2>2, <2>3, <2>4, <2>5, ReadingKeeps
  <1>3. CASE Reads("failure") /\ NextMethod
    <2>1. down # <<>> /\ Msg.k = "failure"
      BY <1>3, Reading
    <2> QED  BY <1>1, <1>3, <2>1, NextMethodKeeps
  <1>4. CASE Reads("ask") /\ NextMethod
    <2>1. down # <<>> /\ Msg.k = "ask"
      BY <1>4, Reading
    <2> QED  BY <1>1, <1>4, <2>1, NextMethodKeeps
  <1>5. CASE /\ Reads("ask") /\ Sends(<<M("info", 0, 0)>>) /\ Aside
             /\ cl' = [Turn(1) EXCEPT !.rounds = @ + 1]
    <2>1. down # <<>> /\ Msg.k = "ask"
      BY <1>5, Reading
    <2>2. /\ Shaped(cl') /\ cl'.pc = cl.pc /\ cl'.kex = cl.kex
          /\ cl'.first = cl.first /\ cl'.key = cl.key
          /\ cl'.in = Moved(cl.in, 1) /\ cl'.out = Moved(cl.out, 1) /\ cl'.out.key = cl.out.key
      <3> DEFINE t == Turn(1)
      <3>1. /\ Shaped(t) /\ t.pc = cl.pc /\ t.kex = cl.kex /\ t.first = cl.first /\ t.key = cl.key
            /\ t.in = Moved(cl.in, 1) /\ t.out = Moved(cl.out, 1) /\ t.out.key = cl.out.key
        BY TurnIs
      <3>2. cl' = [t EXCEPT !.rounds = @ + 1]
        BY <1>5
      <3> HIDE DEF t
      <3> QED  BY <3>1, <3>2 DEF Shaped
    <2>3. Sends(<<M("info", 0, 0)>>) /\ Taken /\ srv' = srv
      BY <1>5 DEF Aside, Quiet
    <2> QED  BY <1>1, <2>1, <2>2, <2>3, CredentialKeeps
  <1> QED  BY <1>2, <1>3, <1>4, <1>5 DEF ReadVerdict

LEMMA StillKeeps == SshInv /\ UNCHANGED <<cl, up, down, srv>> => SshInv'
  <1> SUFFICES ASSUME SshInv, cl' = cl, up' = up, down' = down, srv' = srv PROVE SshInv'
    OBVIOUS
  <1>1. ClientShape' /\ ServerShape' /\ SshStreams'
    BY DEF SshInv, ClientShape, ServerShape, SshStreams
  <1>2. GuessFollows(down)' /\ GuessAhead' /\ UpGuarded' /\ KnownHost'
    BY DEF SshInv, GuessFollows, GuessAhead, UpGuarded, KnownHost, Status
  <1> QED  BY <1>1, <1>2 DEF SshInv

LEMMA PollKeeps == SshInv /\ Poll => SshInv'
  <1> SUFFICES ASSUME SshInv, Poll PROVE SshInv'
    OBVIOUS
  <1> DEFINE ms == Returned(ch, Msg)
  <1>1. PICK k \in Channelled : Reads(k)
    BY DEF Poll
  <1>2. down # <<>> /\ Msg.k # "newkeys"
    BY <1>1, Reading DEF Channelled
  <1>3. Plain(ms)
    BY PlainOnes DEF Returned, Special
  <1>4. Sends(ms) /\ Taken /\ srv' = srv /\ cl' = Turn(Len(ms)) /\ cl.kex = "none"
    BY DEF Poll, Quiet
  <1> HIDE DEF ms
  <1>5. Len(ms) \in Nat
    BY <1>3, PlainSent
  <1>6. /\ Shaped(cl') /\ cl'.pc = cl.pc /\ cl'.kex = cl.kex
        /\ cl'.first = cl.first /\ cl'.key = cl.key
        /\ cl'.in = Moved(cl.in, 1) /\ cl'.out = Moved(cl.out, Len(ms)) /\ cl'.out.key = cl.out.key
    BY <1>4, <1>5, TurnIs
  <1>7. GuessAhead' /\ KnownHost'
    BY <1>4, <1>6 DEF SshInv, GuessAhead, KnownHost, Status
  <1> QED  BY <1>2, <1>3, <1>4, <1>6, <1>7, ReadingKeeps

\* open_channel()
LEMMA OpensKeeps ==
    ASSUME SshInv, Sends(<<M("open", cl.next, 0)>>), down' = down, srv' = srv,
           cl' = [cl EXCEPT !.out = Moved(@, 1), !.next = @ + 1]
    PROVE  SshInv'
  <1> DEFINE ms == <<M("open", cl.next, 0)>>
  <1>1. Shaped(cl) /\ cl.out \in Dirs
    BY DEF SshInv, ClientShape, Shaped
  <1>2. /\ Shaped(cl') /\ cl'.out = Moved(cl.out, 1) /\ cl'.in = cl.in
        /\ cl'.pc = cl.pc /\ cl'.kex = cl.kex /\ cl'.first = cl.first /\ cl'.key = cl.key
    BY <1>1 DEF Shaped
  <1>3. Plain(ms) /\ Len(ms) = 1
    BY PlainOnes DEF Special
  <1>4. Sends(ms)
    OBVIOUS
  <1> HIDE DEF ms
  <1>5. /\ Sendable(ms) /\ cl'.out = Onward(cl.out, ms)
        /\ \A i \in 1..Len(ms) : ms[i].k \notin {"auth", "info"}
    BY <1>2, <1>3, PlainSent
  <1>6. cl'.out.key = cl.out.key
    <2>1. Moved(cl.out, 1).key = cl.out.key
      BY <1>1, MovedIs
    <2> QED  BY <1>2, <2>1
  <1>7. GuessAhead' /\ KnownHost'
    BY <1>2, <1>6 DEF SshInv, KnownHost, GuessAhead, Status
  <1> QED  BY <1>2, <1>4, <1>5, <1>7, ClientKeeps

\* What the operations send carries no credential.
LEMMA OperationsPlain ==
    /\ Plain(<<>>) /\ Plain(Hang) /\ Plain(Eof) /\ Plain(Eof \o Hang)
    /\ \A v : Plain(Unit(v)) /\ Plain(Unit(v) \o Eof)
    /\ \A v, w : Plain(Unit(v) \o Unit(w))
    /\ \A c, v : \A k \in {"pty", "subsystem", "exec"} : Plain(<<M(k, c, v)>>)
  <1>1. Plain(Hang) /\ Plain(Eof) /\ \A v : Plain(Unit(v))
    BY PlainOnes DEF Hang, Eof, Unit, Special
  <1>2. \A c, v : \A k \in {"pty", "subsystem", "exec"} : Plain(<<M(k, c, v)>>)
    BY PlainOnes DEF Special
  <1> QED  BY <1>1, <1>2, PlainOnes

LEMMA OperationKeeps ==
    ASSUME SshInv,
           \/ \E k \in Kinds : Start(k)
           \/ Opened \/ OpenFailed \/ Answered \/ Marked \/ Input \/ Exited
           \/ SftpInit \/ SftpOpen \/ SftpHandle \/ SftpWrite \/ SftpStatus \/ SftpClose \/ SftpClosed
           \/ Abandon \/ Abandoned \/ Finish \/ Finished \/ Fallback \/ CatWrite \/ CancelSeen \/ TimesOut
    PROVE  SshInv'
  <1>0. \A ms, x : Plain(ms) /\ Goes(ms, x) => SshInv'
    BY GoesKeeps
  <1>1. \A x : Goes(<<>>, x) \/ Goes(Hang, x) \/ Goes(Eof, x) \/ Goes(Eof \o Hang, x) => SshInv'
    BY <1>0, OperationsPlain
  <1>2. \A x, v : Goes(Unit(v), x) \/ Goes(Unit(v) \o Eof, x) => SshInv'
    BY <1>0, OperationsPlain
  <1>3. \A x, v, w : Goes(Unit(v) \o Unit(w), x) => SshInv'
    BY <1>0, OperationsPlain
  <1>4. ASSUME NEW k \in Kinds, Start(k) PROVE SshInv'
    BY <1>4, OpensKeeps DEF Start
  <1>5. CASE Opened
    <2> DEFINE k == IF op.kind = "pty" THEN "pty" ELSE IF op.via = "sftp" THEN "subsystem" ELSE "exec"
    <2>1. k \in {"pty", "subsystem", "exec"}
      OBVIOUS
    <2>2. Goes(<<M(k, ch.id, op.via)>>, [op EXCEPT !.pc = k])
      BY <1>5 DEF Opened
    <2> HIDE DEF k
    <2>3. Plain(<<M(k, ch.id, op.via)>>)
      BY <2>1, OperationsPlain
    <2> QED  BY <1>0, <2>2, <2>3
  <1>6. CASE Answered
    <2>1. Plain(<<M("exec", ch.id, op.via)>>)
      BY OperationsPlain
    <2>2. \A x : Goes(<<M("exec", ch.id, op.via)>>, x) => SshInv'
      BY <1>0, <2>1
    <2> QED  BY <1>1, <1>6, <2>2 DEF Answered
  <1>7. CASE \/ OpenFailed \/ Marked \/ Exited \/ SftpHandle \/ SftpStatus
             \/ SftpClosed \/ Abandoned \/ Finished
    BY <1>1, <1>7
    DEF OpenFailed, Marked, Exited, SftpHandle, SftpStatus, SftpClosed, Abandoned, Finished
  <1>8. CASE Input \/ SftpInit \/ SftpOpen \/ SftpWrite \/ SftpClose \/ CatWrite
    BY <1>1, <1>2, <1>8 DEF Input, SftpInit, SftpOpen, SftpWrite, SftpClose, CatWrite
  <1>9. CASE Abandon \/ Finish
    BY <1>1, <1>3, <1>9 DEF Abandon, Finish
  <1>10. CASE Fallback
    <2>1. CASE op.cancel
      BY <1>1, <1>10, <2>1 DEF Fallback
    <2>2. CASE ~op.cancel
      BY <1>10, <2>2, OpensKeeps DEF Fallback
    <2> QED  BY <2>1, <2>2
  <1>11. CASE CancelSeen \/ TimesOut
    BY <1>1, <1>11 DEF CancelSeen, TimesOut
  <1> QED  BY <1>4, <1>5, <1>6, <1>7, <1>8, <1>9, <1>10, <1>11

\* No message announces a guess.
Unguessed(ms) == \A i \in 1..Len(ms) : ms[i].k = "kexinit" => ~ms[i].v.guess

LEMMA PutGuesses ==
    ASSUME NEW q, GuessFollows(q), NEW d, NEW ms, Unguessed(ms), NEW r, Joined(q, d, ms, r)
    PROVE  GuessFollows(r)
  <1>1. /\ Len(q) \in Nat /\ Len(ms) \in Nat /\ Len(r) = Len(q) + Len(ms)
        /\ \A i \in 1..Len(q) : r[i] = q[i]
        /\ \A j \in 1..Len(ms) : r[Len(q) + j].m = ms[j]
    BY DEF Joined
  <1>2. ASSUME NEW i \in 1..Len(r), r[i].m.k = "kexinit", r[i].m.v.guess
        PROVE  i < Len(r) /\ r[i + 1].m.k = "guess"
    <2>1. CASE i <= Len(q)
      <3>1. i \in 1..Len(q) /\ r[i] = q[i]
        BY <1>1, <2>1
      <3>2. i < Len(q) /\ q[i + 1].m.k = "guess"
        BY <1>2, <3>1 DEF GuessFollows
      <3>3. i + 1 \in 1..Len(q) /\ i < Len(r)
        BY <1>1, <3>1, <3>2
      <3> QED  BY <1>1, <3>2, <3>3
    <2>2. CASE i > Len(q)
      <3>1. i - Len(q) \in 1..Len(ms) /\ Len(q) + (i - Len(q)) = i
        BY <1>1, <2>2
      <3>2. r[i].m = ms[i - Len(q)]
        BY <1>1, <3>1
      <3> QED  BY <1>2, <3>1, <3>2 DEF Unguessed
    <2> QED  BY <1>1, <2>1, <2>2
  <1> QED  BY <1>2 DEF GuessFollows

LEMMA TailGuarded ==
    ASSUME SshInv, up # <<>>, up' = Tail(up), cl' = cl
    PROVE  UpGuarded'
  <1>1. PICK S : up \in Seq(S)
    BY DEF SshInv, SshStreams, Chain
  <1>2. /\ Len(up) \in Nat /\ Len(up') = Len(up) - 1 /\ \A i \in 1..Len(up') : up'[i] = up[i + 1]
    BY <1>1
  <1>3. \A i \in 1..Len(up') : i + 1 \in 1..Len(up)
    BY <1>2
  <1> QED  BY <1>2, <1>3 DEF SshInv, UpGuarded

LEMMA ServerKeeps ==
    ASSUME SshInv, cl' = cl, NEW ms, Sendable(ms), Unguessed(ms), Says(ms),
           ServerShaped(srv'), srv'.out = Onward(srv.out, ms),
           \/ up' = up /\ srv'.in = srv.in
           \/ up # <<>> /\ up' = Tail(up) /\ srv'.in = Past(srv.in, Asked)
    PROVE  SshInv'
  <1>1. /\ srv.out \in Dirs /\ srv.in \in Dirs
        /\ Chain(up, Seal(srv.in), Seal(cl.out)) /\ Chain(down, Seal(cl.in), Seal(srv.out))
        /\ GuessFollows(down) /\ ClientShape /\ GuessAhead /\ UpGuarded /\ KnownHost
    BY DEF SshInv, ServerShape, SshStreams
  <1>2. Chain(down', Seal(cl.in), Seal(srv'.out)) /\ srv'.out \in Dirs
    BY <1>1, ChainSent DEF Says
  <1>3. Chain(up', Seal(srv'.in), Seal(cl.out)) /\ srv'.in \in Dirs
    BY <1>1, ChainRead DEF Asked
  <1>4. PICK S, T : down \in Seq(S) /\ ms \in Seq(T)
    BY <1>1 DEF Chain, Sendable
  <1>5. Joined(down, srv.out, ms, down')
    BY <1>1, <1>4, PutElements DEF Says
  <1>6. GuessFollows(down')
    BY <1>1, <1>5, PutGuesses
  <1>7. GuessAhead'
    <2>1. ASSUME cl.kex = "guess" PROVE down' # <<>> /\ down'[1].m.k = "guess"
      <3>1. down # <<>> /\ down[1].m.k = "guess"
        BY <1>1, <2>1 DEF GuessAhead
      <3>2. Len(down) > 0 /\ Len(down) \in Nat /\ Len(ms) \in Nat
        BY <1>4, <3>1
      <3>3. Len(down') > 0 /\ down'[1] = down[1]
        BY <1>5, <3>2 DEF Joined
      <3>4. down' # <<>>
        BY <3>3
      <3> QED  BY <3>1, <3>3, <3>4
    <2> QED  BY <2>1 DEF GuessAhead
  <1>8. UpGuarded'
    <2>1. CASE up' = up
      BY <1>1, <2>1 DEF UpGuarded
    <2> QED  BY <2>1, TailGuarded
  <1>9. KnownHost' /\ ClientShape'
    BY <1>1 DEF KnownHost, ClientShape, Status
  <1>10. ServerShape' /\ SshStreams'
    BY <1>2, <1>3 DEF ServerShape, ServerShaped, SshStreams
  <1> QED  BY <1>6, <1>7, <1>8, <1>9, <1>10 DEF SshInv, GuessFollows

\* What the server says outside a key exchange.
Tame(ms) == Plain(ms) /\ \A i \in 1..Len(ms) : ms[i].k # "kexinit"

Loud == {"newkeys", "auth", "info", "kexinit"}

LEMMA TameOnes ==
    /\ Tame(<<>>)
    /\ \A k, c, v : k \notin Loud => Tame(<<M(k, c, v)>>)
    /\ \A k, c, v, l, e, w : k \notin Loud /\ l \notin Loud => Tame(<<M(k, c, v), M(l, e, w)>>)
    /\ \A k, c, v, l, e, w, n, f, u : k \notin Loud /\ l \notin Loud /\ n \notin Loud =>
          Tame(<<M(k, c, v), M(l, e, w), M(n, f, u)>>)
  <1>1. Tame(<<>>)
    <2>1. \A i \in 1..Len(<<>>) : FALSE
      OBVIOUS
    <2> QED  BY <2>1, PlainOnes DEF Tame
  <1>2. \A k, c, v : M(k, c, v).k = k
    BY DEF M
  <1>3. ASSUME NEW a, a.k \notin Loud PROVE Tame(<<a>>)
    <2>1. <<a>> \in Seq({a}) /\ Len(<<a>>) = 1 /\ <<a>>[1] = a
      OBVIOUS
    <2>2. \A i \in 1..Len(<<a>>) : <<a>>[i].k \notin Loud
      BY <1>3, <2>1
    <2> QED  BY <2>1, <2>2 DEF Tame, Plain, Special, Loud
  <1>4. ASSUME NEW a, NEW b, a.k \notin Loud, b.k \notin Loud PROVE Tame(<<a, b>>)
    <2>1. <<a, b>> \in Seq({a, b}) /\ Len(<<a, b>>) = 2 /\ <<a, b>>[1] = a /\ <<a, b>>[2] = b
      OBVIOUS
    <2>2. \A i \in 1..Len(<<a, b>>) : <<a, b>>[i].k \notin Loud
      BY <1>4, <2>1
    <2> QED  BY <2>1, <2>2 DEF Tame, Plain, Special, Loud
  <1>5. ASSUME NEW a, NEW b, NEW c, a.k \notin Loud, b.k \notin Loud, c.k \notin Loud
        PROVE  Tame(<<a, b, c>>)
    <2>1. /\ <<a, b, c>> \in Seq({a, b, c}) /\ Len(<<a, b, c>>) = 3
          /\ <<a, b, c>>[1] = a /\ <<a, b, c>>[2] = b /\ <<a, b, c>>[3] = c
      OBVIOUS
    <2>2. \A i \in 1..Len(<<a, b, c>>) : <<a, b, c>>[i].k \notin Loud
      BY <1>5, <2>1
    <2> QED  BY <2>1, <2>2 DEF Tame, Plain, Special, Loud
  <1>6. \A k, c, v : k \notin Loud => Tame(<<M(k, c, v)>>)
    BY <1>2, <1>3
  <1>7. \A k, c, v, l, e, w : k \notin Loud /\ l \notin Loud => Tame(<<M(k, c, v), M(l, e, w)>>)
    BY <1>2, <1>4
  <1>8. \A k, c, v, l, e, w, n, f, u : k \notin Loud /\ l \notin Loud /\ n \notin Loud =>
          Tame(<<M(k, c, v), M(l, e, w), M(n, f, u)>>)
    BY <1>2, <1>5
  <1> QED  BY <1>1, <1>6, <1>7, <1>8

LEMMA TameKeeps ==
    ASSUME SshInv, cl' = cl, NEW ms, Tame(ms), Says(ms),
           ServerShaped(srv'), srv'.out = Moved(srv.out, Len(ms)),
           \/ up' = up /\ srv'.in = srv.in
           \/ up # <<>> /\ up' = Tail(up) /\ srv'.in = Past(srv.in, Asked)
    PROVE  SshInv'
  <1>1. Sendable(ms) /\ srv'.out = Onward(srv.out, ms)
    BY PlainSent DEF Tame
  <1>2. Unguessed(ms)
    BY DEF Tame, Unguessed
  <1> QED  BY <1>1, <1>2, ServerKeeps

\* The server after a packet was read.
LEMMA HeardIs ==
    ASSUME SshInv, NEW n \in Nat
    PROVE  /\ ServerShaped(Heard(n)) /\ Heard(n).in = Moved(srv.in, 1) /\ Heard(n).out = Moved(srv.out, n)
           /\ ServerShaped(Said(n)) /\ Said(n).in = srv.in /\ Said(n).out = Moved(srv.out, n)
           /\ ServerShaped(srv)
  <1>1. ServerShaped(srv)
    BY DEF SshInv, ServerShape, ServerShaped
  <1> DEFINE s == Said(n)
             h == Heard(n)
  <1>2. s = [srv EXCEPT !.out = Moved(srv.out, n)]
    BY DEF Said
  <1>3. h = [s EXCEPT !.in = Moved(s.in, 1)]
    BY DEF Heard
  <1> HIDE DEF s, h
  <1>4. ServerShaped(s) /\ s.in = srv.in /\ s.out = Moved(srv.out, n)
    BY <1>1, <1>2 DEF ServerShaped
  <1>5. ServerShaped(h) /\ h.in = Moved(srv.in, 1) /\ h.out = Moved(srv.out, n)
    BY <1>3, <1>4 DEF ServerShaped
  <1> QED  BY <1>1, <1>4, <1>5 DEF s, h

LEMMA ServerKexKeeps == SshInv /\ ServerKex => SshInv'
  <1> SUFFICES ASSUME SshInv, ServerKex PROVE SshInv'
    OBVIOUS
  <1>0. up # <<>> /\ up' = Tail(up) /\ cl' = cl
    BY DEF ServerKex, Serves, Client
  <1>a. Past(srv.in, Asked) = IF Asked.k = "newkeys" THEN [key |-> srv.in.key + 1, seq |-> 0]
                             ELSE Moved(srv.in, 1)
    BY DEF Past
  <1>b. \A i \in 1..Len(<<>>) : FALSE
    OBVIOUS
  <1>c. Says(<<>>) <=> down' = down
    BY NothingSent DEF Says
  <1>d. /\ Moved(srv.out, 0) = srv.out /\ Moved(srv.in, 1).key = srv.in.key
        /\ Moved(srv.out, 2).key = srv.out.key
    BY NothingSent, MovedIs
  <1>1. CASE Asked.k = "kexinit" /\ srv' = Heard(0) /\ UNCHANGED down
    <2>1. ServerShaped(srv') /\ srv'.in = Moved(srv.in, 1) /\ srv'.out = Moved(srv.out, 0)
      BY <1>1, HeardIs
    <2>2. Tame(<<>>) /\ Len(<<>>) = 0
      BY TameOnes
    <2> QED  BY <1>0, <1>1, <1>a, <1>c, <2>1, <2>2, TameKeeps
  <1>2. ASSUME Asked.k = "gexreq", srv' = Heard(1), NEW good, Says(<<M("group", 0, good)>>)
        PROVE  SshInv'
    <2> DEFINE ms == <<M("group", 0, good)>>
    <2>1. ServerShaped(srv') /\ srv'.in = Moved(srv.in, 1) /\ srv'.out = Moved(srv.out, 1)
      BY <1>2, HeardIs
    <2>2. Tame(ms) /\ Len(ms) = 1 /\ Says(ms)
      BY <1>2, TameOnes DEF Loud
    <2> HIDE DEF ms
    <2> QED  BY <1>0, <1>2, <1>a, <2>1, <2>2, TameKeeps
  <1>3. ASSUME Asked.k \in {"kex30", "gexinit"}, NEW v,
               Says(<<M("reply", 0, v), M("newkeys", 0, 0)>>),
               srv' = [Heard(2) EXCEPT !.kex = "newkeys", !.out = FromZero(@)]
        PROVE  SshInv'
    <2> DEFINE a == M("reply", 0, v)
               b == M("newkeys", 0, 0)
               ms == <<a, b>>
    <2>1. a.k = "reply" /\ b.k = "newkeys"
      BY DEF M
    <2> HIDE DEF a, b
    <2>2. ms \in Seq({a, b}) /\ Len(ms) = 2 /\ ms[1] = a /\ ms[2] = b /\ ms # <<>>
      OBVIOUS
    <2>3. Says(ms)
      BY <1>3 DEF a, b
    <2> HIDE DEF ms
    <2>4. Sendable(ms) /\ Unguessed(ms)
      BY <2>1, <2>2 DEF Sendable, Unguessed
    <2>5. Onward(srv.out, ms) = [key |-> srv.out.key + 1, seq |-> 0]
      BY <2>1, <2>2 DEF Onward
    <2>6. /\ ServerShaped(srv') /\ srv'.in = Moved(srv.in, 1)
          /\ srv'.out = [key |-> srv.out.key + 1, seq |-> 0]
      <3> DEFINE h == Heard(2)
      <3>1. ServerShaped(h) /\ h.in = Moved(srv.in, 1) /\ h.out = Moved(srv.out, 2)
        BY HeardIs
      <3>2. srv' = [h EXCEPT !.kex = "newkeys", !.out = FromZero(h.out)]
        BY <1>3
      <3> HIDE DEF h
      <3>3. ServerShaped(srv') /\ srv'.in = Moved(srv.in, 1) /\ srv'.out = FromZero(h.out)
        BY <3>1, <3>2 DEF ServerShaped
      <3> QED  BY <1>d, <3>1, <3>3 DEF FromZero
    <2> QED  BY <1>0, <1>3, <1>a, <2>3, <2>4, <2>5, <2>6, ServerKeeps
  <1>4. CASE /\ Asked.k = "newkeys" /\ UNCHANGED down
             /\ srv' = [Heard(0) EXCEPT !.kex = "none", !.in = FromZero(@)]
    <2>1. /\ ServerShaped(srv') /\ srv'.out = Moved(srv.out, 0)
          /\ srv'.in = [key |-> srv.in.key + 1, seq |-> 0]
      <3> DEFINE h == Heard(0)
      <3>1. ServerShaped(h) /\ h.in = Moved(srv.in, 1) /\ h.out = Moved(srv.out, 0)
        BY HeardIs
      <3>2. srv' = [h EXCEPT !.kex = "none", !.in = FromZero(h.in)]
        BY <1>4
      <3> HIDE DEF h
      <3>3. ServerShaped(srv') /\ srv'.in = FromZero(h.in) /\ srv'.out = Moved(srv.out, 0)
        BY <3>1, <3>2 DEF ServerShaped
      <3> QED  BY <1>d, <3>1, <3>3 DEF FromZero
    <2>2. Tame(<<>>) /\ Len(<<>>) = 0
      BY TameOnes
    <2> QED  BY <1>0, <1>4, <1>a, <1>c, <2>1, <2>2, TameKeeps
  <1> QED  BY <1>1, <1>2, <1>3, <1>4 DEF ServerKex

\* A login message is answered with one message of the transport.
LEMMA JudgedSays ==
    ASSUME NEW m, Judged(m)
    PROVE  /\ m.k \in Logins
           /\ \E k \in {"accept", "success", "failure", "ask"} : Says(<<M(k, 0, 0)>>)
  BY DEF Judged, Logins

LEMMA ServerAuthKeeps == SshInv /\ ServerAuth => SshInv'
  <1> SUFFICES ASSUME SshInv, ServerAuth PROVE SshInv'
    OBVIOUS
  <1>0. cl' = cl
    BY DEF ServerAuth, Client
  <1>1. PICK k \in {"accept", "success", "failure", "ask"} : Says(<<M(k, 0, 0)>>)
    BY JudgedSays DEF ServerAuth
  <1> DEFINE ms == <<M(k, 0, 0)>>
  <1>2. Tame(ms) /\ Len(ms) = 1 /\ Says(ms)
    BY <1>1, TameOnes DEF Loud
  <1> HIDE DEF ms
  <1>3. CASE srv' = [Said(1) EXCEPT !.held = Tail(@)] /\ up' = up
    <2> DEFINE h == Said(1)
    <2>1. ServerShaped(h) /\ h.in = srv.in /\ h.out = Moved(srv.out, 1)
      BY HeardIs
    <2>2. srv' = [h EXCEPT !.held = Tail(@)]
      BY <1>3
    <2> HIDE DEF h
    <2>3. ServerShaped(srv') /\ srv'.in = srv.in /\ srv'.out = Moved(srv.out, 1)
      BY <2>1, <2>2 DEF ServerShaped
    <2> QED  BY <1>0, <1>2, <1>3, <2>3, TameKeeps
  <1>4. CASE Serves /\ Judged(Asked) /\ srv' = Heard(1) /\ up' = Tail(up)
    <2>1. ServerShaped(srv') /\ srv'.in = Moved(srv.in, 1) /\ srv'.out = Moved(srv.out, 1)
      BY <1>4, HeardIs
    <2>2. Past(srv.in, Asked) = Moved(srv.in, 1)
      <3>1. Asked.k # "newkeys"
        BY <1>4, JudgedSays DEF Logins
      <3> QED  BY <3>1 DEF Past
    <2>3. up # <<>>
      BY <1>4 DEF Serves
    <2> QED  BY <1>0, <1>2, <1>4, <2>1, <2>2, <2>3, TameKeeps
  <1> QED  BY <1>3, <1>4 DEF ServerAuth

LEMMA ServerExtraKeeps == SshInv /\ ServerExtra => SshInv'
  <1> SUFFICES ASSUME SshInv, ServerExtra PROVE SshInv'
    OBVIOUS
  <1>0. up' = up /\ cl' = cl
    BY DEF ServerExtra, Client
  <1>1. CASE Says(<<M("global", 0, 0)>>) /\ srv' = Said(1)
    <2> DEFINE ms == <<M("global", 0, 0)>>
    <2>1. ServerShaped(srv') /\ srv'.in = srv.in /\ srv'.out = Moved(srv.out, 1)
      BY <1>1, HeardIs
    <2>2. Tame(ms) /\ Len(ms) = 1 /\ Says(ms)
      BY <1>1, TameOnes DEF Loud
    <2> HIDE DEF ms
    <2> QED  BY <1>0, <2>1, <2>2, TameKeeps
  <1> DEFINE offer == [strict |-> TRUE, method |-> "curve", guess |-> FALSE]
  <1>2. CASE /\ Says(Kexinit(offer)) /\ srv' = [Said(1) EXCEPT !.rekeys = @ + 1, !.kex = "start"]
    <2> DEFINE m == M("kexinit", 0, offer)
    <2>1. m.k = "kexinit" /\ ~m.v.guess
      BY DEF M
    <2>2. Kexinit(offer) = <<m>>
      BY DEF Kexinit
    <2> HIDE DEF m, offer
    <2>3. Sendable(<<m>>) /\ Onward(srv.out, <<m>>) = Past(srv.out, m)
      BY Singles DEF m
    <2>4. Unguessed(<<m>>)
      <3>1. Len(<<m>>) = 1 /\ <<m>>[1] = m
        OBVIOUS
      <3> QED  BY <2>1, <3>1 DEF Unguessed
    <2>5. Past(srv.out, m) = Moved(srv.out, 1)
      BY <2>1 DEF Past
    <2>6. ServerShaped(srv') /\ srv'.in = srv.in /\ srv'.out = Moved(srv.out, 1)
      <3> DEFINE h == Said(1)
      <3>1. ServerShaped(h) /\ h.in = srv.in /\ h.out = Moved(srv.out, 1)
        BY HeardIs
      <3>2. srv' = [h EXCEPT !.rekeys = @ + 1, !.kex = "start"]
        BY <1>2
      <3> HIDE DEF h
      <3> QED  BY <3>1, <3>2 DEF ServerShaped
    <2>7. Says(<<m>>)
      BY <1>2, <2>2
    <2> QED  BY <1>0, <2>3, <2>4, <2>5, <2>6, <2>7, ServerKeeps
  <1> QED  BY <1>1, <1>2 DEF ServerExtra

LEMMA ServerHoldsKeeps == SshInv /\ ServerHolds => SshInv'
  <1> SUFFICES ASSUME SshInv, ServerHolds PROVE SshInv'
    OBVIOUS
  <1>0. up # <<>> /\ up' = Tail(up) /\ cl' = cl /\ down' = down /\ Asked.k # "newkeys"
    BY DEF ServerHolds, Serves, Client, Requests, Logins
  <1>1. Past(srv.in, Asked) = Moved(srv.in, 1)
    BY <1>0 DEF Past
  <1>2. ServerShaped(srv') /\ srv'.in = Moved(srv.in, 1) /\ srv'.out = Moved(srv.out, 0)
    <2> DEFINE h == Heard(0)
    <2>1. ServerShaped(h) /\ h.in = Moved(srv.in, 1) /\ h.out = Moved(srv.out, 0)
      BY HeardIs
    <2>2. srv' = [h EXCEPT !.held = Append(@, Asked)]
      BY DEF ServerHolds
    <2> HIDE DEF h
    <2> QED  BY <2>1, <2>2 DEF ServerShaped
  <1>3. Says(<<>>) /\ Tame(<<>>) /\ Len(<<>>) = 0
    BY <1>0, NothingSent, TameOnes DEF Says
  <1> QED  BY <1>0, <1>1, <1>2, <1>3, TameKeeps

\* An answer on a channel.
LEMMA AnswerKeeps ==
    ASSUME SshInv, cl' = cl, NEW s, ServerShaped(s), s.out = srv.out,
           \/ up' = up /\ s.in = srv.in
           \/ up # <<>> /\ up' = Tail(up) /\ s.in = Past(srv.in, Asked),
           NEW ms, Tame(ms), Says(ms), NEW c, NEW q, NEW n, n = Len(ms),
           srv' = [s EXCEPT !.chan[c] = q, !.out = Moved(@, n)]
    PROVE  SshInv'
  <1>1. ServerShaped(srv') /\ srv'.in = s.in /\ srv'.out = Moved(srv.out, Len(ms))
    <2> DEFINE x == [s.chan EXCEPT ![c] = q]
    <2>1. srv' = [s EXCEPT !.chan = x, !.out = Moved(s.out, n)]
      OBVIOUS
    <2> HIDE DEF x
    <2> QED  BY <2>1 DEF ServerShaped
  <1> QED  BY <1>1, TameKeeps

LEMMA HandledKeeps ==
    ASSUME SshInv, cl' = cl, NEW s, ServerShaped(s), s.out = srv.out,
           \/ up' = up /\ s.in = srv.in
           \/ up # <<>> /\ up' = Tail(up) /\ s.in = Past(srv.in, Asked),
           NEW m, Handled(s, m)
    PROVE  SshInv'
  <1> DEFINE p == s.chan[m.c]
             with(q, ms) == /\ Says(ms)
                            /\ srv' = [s EXCEPT !.chan[m.c] = q, !.out = Moved(@, Len(ms))]
             one(k) == <<M(k, m.c, 0)>>
  <1>1. ASSUME NEW q, NEW ms, Tame(ms), with(q, ms) PROVE SshInv'
    BY <1>1, AnswerKeeps
  <1>2. Tame(<<>>) /\ \A k, v : k \notin Loud => Tame(<<M(k, m.c, v)>>)
    BY TameOnes
  <1>3. CASE srv' = s /\ UNCHANGED down
    <2>1. Says(<<>>) /\ Len(<<>>) = 0
      BY <1>3, NothingSent DEF Says
    <2>2. srv'.out = Moved(srv.out, 0)
      BY <1>3, NothingSent, MovedIs
    <2> QED  BY <1>2, <1>3, <2>1, <2>2, TameKeeps
  <1>4. PICK q, ms : \/ with(q, ms) /\ Tame(ms)
                     \/ srv' = s /\ UNCHANGED down
    <2> HIDE DEF with
    <2>1. CASE m.k = "open"
      <3>1. \/ with([p EXCEPT !.kind = "open", !.room = Window], <<M("conf", m.c, Window)>>)
            \/ with(p, one("refused"))
        BY <2>1 DEF Handled, with
      <3>2. Tame(<<M("conf", m.c, Window)>>) /\ Tame(one("refused"))
        BY <1>2 DEF Loud
      <3> QED  BY <3>1, <3>2
    <2>2. CASE m.k = "pty"
      <3>1. with([p EXCEPT !.pty = TRUE], one("ok")) \/ with(p, one("no"))
        BY <2>2 DEF Handled, with
      <3>2. Tame(one("ok")) /\ Tame(one("no"))
        BY <1>2 DEF Loud
      <3> QED  BY <3>1, <3>2
    <2>3. CASE m.k \in {"exec", "subsystem"}
      <3>1. with([p EXCEPT !.kind = Running(m)], one("ok")) \/ with(p, one("no"))
        BY <2>3 DEF Handled, with
      <3>2. Tame(one("ok")) /\ Tame(one("no"))
        BY <1>2 DEF Loud
      <3> QED  BY <3>1, <3>2
    <2>4. CASE m.k = "data"
      <3>1. with(p, <<M("adjust", m.c, 1)>>) \/ with([p EXCEPT !.inbox = Append(@, m.v)], <<>>)
        BY <2>4 DEF Handled, with
      <3>2. Tame(<<M("adjust", m.c, 1)>>) /\ Tame(<<>>)
        BY <1>2 DEF Loud
      <3> QED  BY <3>1, <3>2
    <2>5. CASE m.k = "eof"
      <3>1. with([p EXCEPT !.eof = TRUE], <<>>)
        BY <2>5 DEF Handled, with
      <3> QED  BY <1>2, <3>1
    <2>6. CASE m.k = "adjust"
      <3>1. with([p EXCEPT !.room = @ + m.v], <<>>)
        BY <2>6 DEF Handled, with
      <3> QED  BY <1>2, <3>1
    <2>7. CASE m.k = "no"
      BY <2>7 DEF Handled
    <2>8. CASE m.k = "close"
      <3> DEFINE q == IF p.kind \in {"sftp", "cat"} THEN [p EXCEPT !.eof = TRUE, !.closed = TRUE]
                      ELSE [Gone EXCEPT !.code = p.code]
                 ms == IF p.closed THEN <<>> ELSE one("close")
      <3>1. with(q, ms)
        BY <2>8 DEF Handled, with
      <3>2. Tame(ms)
        BY <1>2 DEF Loud
      <3> QED  BY <3>1, <3>2
    <2> QED  BY <2>1, <2>2, <2>3, <2>4, <2>5, <2>6, <2>7, <2>8 DEF Handled
  <1> HIDE DEF with
  <1> QED  BY <1>1, <1>3, <1>4

LEMMA ServerHandlesKeeps == SshInv /\ ServerHandles => SshInv'
  <1> SUFFICES ASSUME SshInv, ServerHandles PROVE SshInv'
    OBVIOUS
  <1>0. cl' = cl
    BY DEF ServerHandles, Client
  <1>1. CASE Handled([srv EXCEPT !.held = Tail(@)], Head(srv.held)) /\ UNCHANGED up
    <2> DEFINE s == [srv EXCEPT !.held = Tail(@)]
    <2>1. s = [srv EXCEPT !.held = Tail(@)] /\ Handled(s, Head(srv.held))
      BY <1>1
    <2>2. ServerShaped(srv)
      BY HeardIs
    <2> HIDE DEF s
    <2>3. ServerShaped(s) /\ s.in = srv.in /\ s.out = srv.out
      BY <2>1, <2>2 DEF ServerShaped
    <2> QED  BY <1>0, <1>1, <2>1, <2>3, HandledKeeps
  <1>2. CASE Serves /\ Asked.k \in Requests /\ Handled(Heard(0), Asked) /\ up' = Tail(up)
    <2> DEFINE s == Heard(0)
    <2>1. ServerShaped(s) /\ s.in = Moved(srv.in, 1) /\ s.out = Moved(srv.out, 0)
      BY HeardIs
    <2>2. Moved(srv.out, 0) = srv.out
      BY NothingSent, MovedIs
    <2>3. Past(srv.in, Asked) = Moved(srv.in, 1) /\ up # <<>>
      BY <1>2 DEF Past, Requests, Serves
    <2>4. Handled(s, Asked)
      BY <1>2
    <2> HIDE DEF s
    <2> QED  BY <1>0, <1>2, <2>1, <2>2, <2>3, <2>4, HandledKeeps
  <1> QED  BY <1>1, <1>2 DEF ServerHandles

LEMMA ProcessesKeep ==
    ASSUME SshInv, NEW c \in Ids,
           CommandSays(c) \/ ProcessEnds(c) \/ CatServes(c) \/ (\E code \in {0, 1} : SftpServes(c, code))
    PROVE  SshInv'
  <1>1. up' = up /\ cl' = cl
    BY DEF CommandSays, ProcessEnds, CatServes, SftpServes, Client
  <1>2. ServerShaped(srv)
    BY HeardIs
  <1>3. ASSUME NEW q, NEW ms, Tame(ms), Speaks(c, q, ms) PROVE SshInv'
    <2> DEFINE sent == IF q.closed THEN <<>> ELSE ms
    <2>1. Tame(sent)
      BY <1>3, TameOnes
    <2>2. Says(sent) /\ srv' = [srv EXCEPT !.chan[c] = q, !.out = Moved(@, Len(sent))]
      BY <1>3 DEF Speaks
    <2> HIDE DEF sent
    <2> QED  BY <1>1, <1>2, <2>1, <2>2, AnswerKeeps
  <1>4. Tame(<<>>) /\ \A k, v : k \notin Loud => Tame(<<M(k, c, v)>>)
    BY TameOnes
  <1>5. CASE CommandSays(c)
    <2>1. Tame(<<M("data", c, c)>>)
      BY <1>4 DEF Loud
    <2>2. PICK q : Speaks(c, q, <<M("data", c, c)>>)
      BY <1>5 DEF CommandSays
    <2> QED  BY <1>3, <2>1, <2>2
  <1>6. CASE CatServes(c)
    <2>1. Tame(<<M("adjust", c, 1)>>)
      BY <1>4 DEF Loud
    <2>2. PICK q : Speaks(c, q, <<M("adjust", c, 1)>>)
      BY <1>6 DEF CatServes
    <2> QED  BY <1>3, <2>1, <2>2
  <1>7. ASSUME NEW code \in {0, 1}, SftpServes(c, code) PROVE SshInv'
    <2>1. PICK q, v : Speaks(c, q, <<M("adjust", c, 1), M("data", c, v)>>)
      BY <1>7 DEF SftpServes
    <2>2. Tame(<<M("adjust", c, 1), M("data", c, v)>>)
      BY TameOnes DEF Loud
    <2> QED  BY SMTT(30), <1>3, <2>1, <2>2
  <1>8. CASE ProcessEnds(c)
    <2>1. PICK code : LET p == srv.chan[c] IN
             /\ Says(IF p.closed THEN <<>> ELSE <<M("exit", c, code), M("eof", c, 0), M("close", c, 0)>>)
             /\ srv' = [srv EXCEPT !.chan[c] = [Gone EXCEPT !.code = code],
                                   !.out = Moved(@, IF p.closed THEN 0 ELSE 3)]
      BY <1>8 DEF ProcessEnds
    <2> DEFINE p == srv.chan[c]
               ms == IF p.closed THEN <<>> ELSE <<M("exit", c, code), M("eof", c, 0), M("close", c, 0)>>
               n == IF p.closed THEN 0 ELSE 3
               q == [Gone EXCEPT !.code = code]
    <2>2. Tame(ms)
      BY TameOnes DEF Loud
    <2>3. n = Len(ms)
      OBVIOUS
    <2>4. Says(ms) /\ srv' = [srv EXCEPT !.chan[c] = q, !.out = Moved(@, n)]
      BY <2>1
    <2> HIDE DEF ms, n, q
    <2> QED  BY <1>1, <1>2, <2>2, <2>3, <2>4, AnswerKeeps
  <1> QED  BY SMTT(30), <1>5, <1>6, <1>7, <1>8

LEMMA SshStarts == SshInit => SshInv
  <1> SUFFICES ASSUME SshInit PROVE SshInv
    OBVIOUS
  <1>1. PICK o \in Offers : /\ down = Sealed(New, Kexinit(o))
                            /\ srv = [NewServer EXCEPT !.out = Moved(New, Len(Kexinit(o)))]
    BY DEF SshInit
  <1>2. cl = Closed /\ up = <<>>
    BY DEF SshInit
  <1>3. New \in Dirs
    BY Space DEF New, Dirs
  <1> DEFINE a == M("kexinit", 0, o)
             b == M("guess", 0, 0)
             ms == Kexinit(o)
  <1>4. a.k = "kexinit" /\ a.v = o /\ b.k = "guess"
    BY DEF M
  <1>5. ms = <<a>> \o (IF o.guess THEN <<b>> ELSE <<>>)
    BY DEF Kexinit
  <1> HIDE DEF a, b, ms
  <1>6. /\ ms \in Seq({a, b}) /\ Len(ms) \in {1, 2} /\ ms[1] = a /\ ms # <<>>
        /\ (Len(ms) = 2 => ms[2] = b) /\ (o.guess => Len(ms) = 2)
    <2>1. CASE o.guess
      <3> DEFINE x == <<a>>
                 y == <<b>>
      <3>1. ms = x \o y
        BY <1>5, <2>1
      <3>2. x \in Seq({a, b}) /\ y \in Seq({a, b}) /\ Len(x) = 1 /\ Len(y) = 1 /\ x[1] = a /\ y[1] = b
        OBVIOUS
      <3> DEFINE S == {a, b}
      <3> HIDE DEF x, y, S
      <3>s. x \in Seq(S) /\ y \in Seq(S)
        BY <3>2 DEF S
      <3>3. ms \in Seq({a, b}) /\ Len(ms) = 2 /\ ms[1] = a /\ ms[2] = b
        <4>1. /\ ms \in Seq(S) /\ Len(ms) = Len(x) + Len(y)
              /\ \A i \in 1..Len(x) : ms[i] = x[i]
              /\ \A i \in 1..Len(y) : ms[Len(x) + i] = y[i]
          BY <3>1, <3>s
        <4> QED  BY <3>2, <4>1 DEF S
      <3> QED  BY <3>3
    <2>2. CASE ~o.guess
      <3>1. ms = <<a>>
        BY <1>5, <2>2
      <3> QED  BY <2>2, <3>1
    <2> QED  BY <2>1, <2>2
  <1>7. \A i \in 1..Len(ms) : ms[i].k \notin Special
    BY <1>4, <1>6 DEF Special
  <1>8. Plain(ms)
    BY <1>6, <1>7 DEF Plain
  <1>9. Sendable(ms) /\ Onward(New, ms) = Moved(New, Len(ms)) /\ Len(ms) \in Nat
    BY <1>8, PlainSent
  <1>10. <<>> \in Seq({}) /\ \A i \in 1..Len(<<>>) : FALSE
    OBVIOUS
  <1>11. Chain(<<>>, Seal(New), Seal(New))
    BY <1>10 DEF Chain
  <1>12. /\ Chain(<<>> \o Sealed(New, ms), Seal(New), Seal(Moved(New, Len(ms))))
         /\ Moved(New, Len(ms)) \in Dirs
    BY <1>3, <1>9, <1>11, ChainSent
  <1>13. /\ Joined(<<>>, New, ms, <<>> \o Sealed(New, ms))
    BY <1>3, <1>6, <1>10, PutElements
  <1>14. <<>> \o Sealed(New, ms) = down
    <2>1. DOMAIN ms = 1..Len(ms) /\ Len(ms) \in Nat
      BY <1>6
    <2> DEFINE e == Sealed(New, ms)
    <2>2. e = [i \in 1..Len(ms) |-> [m |-> ms[i], seal |-> Seal(Moved(New, i - 1))]]
      BY <2>1 DEF Sealed
    <2> DEFINE U == {e[i] : i \in 1..Len(ms)}
    <2>3. e \in [1..Len(ms) -> U]
      BY <2>2
    <2> HIDE DEF e, U
    <2>4. e \in Seq(U)
      BY <2>1, <2>3
    <2>5. <<>> \o e = e
      BY <2>4
    <2> QED  BY <1>1, <2>5 DEF e, ms
  <1>15. /\ srv.out = Moved(New, Len(ms)) /\ srv.in = New
         /\ ServerShaped(srv)
    BY <1>1 DEF NewServer, ms, ServerShaped
  <1>16. /\ Shaped(cl) /\ cl.out = New /\ cl.in = New 
         /\ cl.first = FALSE /\ cl.kex = "none" /\ cl.pc = "closed"
    BY <1>2 DEF Closed, Shaped
  <1>17. SshStreams
    BY <1>2, <1>11, <1>12, <1>14, <1>15, <1>16 DEF SshStreams
  <1>18. GuessFollows(down)
    <2>1. /\ Len(<<>>) = 0 /\ Len(down) = Len(<<>>) + Len(ms)
          /\ \A j \in 1..Len(ms) : down[Len(<<>>) + j].m = ms[j]
      BY <1>13, <1>14 DEF Joined
    <2>2. Len(down) = Len(ms) /\ \A j \in 1..Len(ms) : down[j].m = ms[j]
      BY <1>9, <2>1
    <2>3. ASSUME NEW i \in 1..Len(down), down[i].m.k = "kexinit", down[i].m.v.guess
          PROVE  i < Len(down) /\ down[i + 1].m.k = "guess"
      <3>1. ms[i].k = "kexinit" /\ ms[i].v.guess /\ (i = 1 \/ i = 2)
        BY <1>6, <2>2, <2>3
      <3>2. i # 2
        BY <1>4, <1>6, <2>2, <3>1
      <3>3. i = 1 /\ Len(ms) = 2
        BY <1>4, <1>6, <3>1, <3>2
      <3>4. down[2].m = b
        BY <1>6, <2>2, <3>3
      <3> QED  BY <1>4, <2>2, <3>3, <3>4
    <2> QED  BY <2>3 DEF GuessFollows
  <1>19. GuessAhead /\ KnownHost /\ UpGuarded
    BY <1>2, <1>10, <1>16 DEF GuessAhead, KnownHost, UpGuarded
  <1> QED  BY <1>3, <1>12, <1>15, <1>16, <1>17, <1>18, <1>19
           DEF SshInv, ClientShape, ServerShape

\* The inductive invariant of the deployer's session with its server: either
\* stream is a chain of packets from where its reader is to where its writer is,
\* a wrong guess stands right behind its KEXINIT, and credentials are only on
\* their way under keys agreed on with a known host (Transport and kex::run()).
THEOREM SshInvariant == SshSpec => []SshInv
  <1>1. SshInit => SshInv
    BY SshStarts
  <1>2. SshInv /\ [SshNext]_sshVars => SshInv'
    <2> SUFFICES ASSUME SshInv, [SshNext]_sshVars PROVE SshInv'
      OBVIOUS
    <2>1. CASE Transport
      <3>1. CASE OpenRefused \/ Break
        BY <3>1, DiesKeeps DEF OpenRefused, Break
      <3> QED
        BY <2>1, <3>1, OpenKeeps, ReadKexinitKeeps, DropGuessKeeps, ReadGroupKeeps, ReadReplyKeeps,
           ReadNewkeysKeeps, ReadNoiseKeeps, ReadAcceptKeeps, ReadVerdictKeeps DEF Transport
    <2>2. CASE Channel
      <3>1. CASE Cancel
        BY <3>1, StillKeeps DEF Cancel, Quiet
      <3> QED  BY <2>2, <3>1, PollKeeps, OperationKeeps DEF Channel
    <2>3. CASE Server
      BY <2>3, ServerKexKeeps, ServerAuthKeeps, ServerExtraKeeps, ServerHoldsKeeps, ServerHandlesKeeps,
         ProcessesKeep DEF Server
    <2>4. CASE UNCHANGED sshVars
      BY <2>4, StillKeeps DEF sshVars
    <2> QED  BY <2>1, <2>2, <2>3, <2>4 DEF SshNext
  <1> QED  BY <1>1, <1>2, PTL DEF SshSpec

\* Both ends stay in step: whatever is on its way when new keys are agreed on,
\* the next packet opens under its reader's key and sequence number
\* (read_packet(), send() and the strict key exchange of kex::run()), for every
\* number of sequence numbers, exchanges and operations.
THEOREM EndsStayInStep == SshSpec => []InStep
  <1>1. SshInv => InStep
    <2> SUFFICES ASSUME SshInv PROVE InStep
      OBVIOUS
    <2>1. \A q, from, to : Chain(q, from, to) /\ q # <<>> => Head(q).seal = from
      BY ChainTail
    <2> QED  BY <2>1 DEF SshInv, SshStreams, InStep
  <1> QED  BY <1>1, SshInvariant, PTL

\* Once keys are agreed on, the session's host key stays what it is.
KeptKey == cl.first /\ cl'.first => cl'.key = cl.key

LEMMA OperationKeepsKey ==
    ASSUME SshInv,
           \/ \E k \in Kinds : Start(k)
           \/ Opened \/ OpenFailed \/ Answered \/ Marked \/ Input \/ Exited
           \/ SftpInit \/ SftpOpen \/ SftpHandle \/ SftpWrite \/ SftpStatus \/ SftpClose \/ SftpClosed
           \/ Abandon \/ Abandoned \/ Finish \/ Finished \/ Fallback \/ CatWrite \/ CancelSeen \/ TimesOut
    PROVE  KeptKey
  <1>1. Shaped(cl)
    BY DEF SshInv, ClientShape
  <1>2. ASSUME NEW n, cl' = [cl EXCEPT !.out = Moved(@, n)] PROVE KeptKey
    BY <1>1, <1>2 DEF KeptKey, Shaped
  <1>3. ASSUME cl' = [cl EXCEPT !.out = Moved(@, 1), !.next = @ + 1] PROVE KeptKey
    BY <1>1, <1>3 DEF KeptKey, Shaped
  <1>4. ASSUME NEW ms, NEW x, Goes(ms, x) PROVE KeptKey
    BY <1>2, <1>4 DEF Goes
  <1>5. CASE (\E k \in Kinds : Start(k)) \/ Fallback
    BY <1>3, <1>4, <1>5 DEF Start, Fallback
  <1>6. CASE Opened \/ OpenFailed \/ Answered \/ Marked \/ Input \/ Exited
    BY <1>4, <1>6 DEF Opened, OpenFailed, Answered, Marked, Input, Exited
  <1>7. CASE SftpInit \/ SftpOpen \/ SftpHandle \/ SftpWrite \/ SftpStatus \/ SftpClose \/ SftpClosed
    BY <1>4, <1>7 DEF SftpInit, SftpOpen, SftpHandle, SftpWrite, SftpStatus, SftpClose, SftpClosed
  <1>8. CASE Abandon \/ Abandoned \/ Finish \/ Finished \/ CatWrite \/ CancelSeen \/ TimesOut
    BY <1>4, <1>8 DEF Abandon, Abandoned, Finish, Finished, CatWrite, CancelSeen, TimesOut
  <1> QED  BY <1>5, <1>6, <1>7, <1>8

LEMMA TransportKeepsKey == SshInv /\ Transport => KeptKey
  <1> SUFFICES ASSUME SshInv, Transport PROVE KeptKey
    OBVIOUS
  <1>1. Shaped(cl)
    BY DEF SshInv, ClientShape
  <1>2. CASE Dies
    <2>1. cl'.first = FALSE
      BY <1>2 DEF Dies, Closed
    <2> QED  BY <2>1 DEF KeptKey
  <1>3. \A n \in Nat : Shaped(Turn(n)) /\ Turn(n).key = cl.key
    BY TurnIs
  <1>5. CASE Open
    BY <1>1, <1>5 DEF Open, Shaped, KeptKey
  <1>6. CASE ReadKexinit
    <2>1. CASE Dies
      BY <1>2, <2>1
    <2>2. CASE \E n \in Nat : \E m, k : cl' = [Turn(n) EXCEPT !.method = m, !.kex = k]
      <3>1. PICK n \in Nat : \E m, k : cl' = [Turn(n) EXCEPT !.method = m, !.kex = k]
        BY <2>2
      <3> DEFINE t == Turn(n)
      <3>2. Shaped(t) /\ t.key = cl.key /\ \E m, k : cl' = [t EXCEPT !.method = m, !.kex = k]
        BY <1>3, <3>1
      <3> HIDE DEF t
      <3> QED  BY <3>2 DEF Shaped, KeptKey
    <2> DEFINE mine == IF cl.first THEN OurKexinit ELSE <<>>
               offer == Msg.v
               more == IF offer.guess THEN <<>> ELSE <<Method(offer)>>
               ms == mine \o more
    <2>3. Len(ms) \in Nat
      <3>1. Plain(mine) /\ Plain(more)
        BY PlainOnes DEF OurKexinit, Method, Special
      <3>2. Plain(ms)
        BY <3>1, PlainOnes
      <3> HIDE DEF ms
      <3> QED  BY <3>2, PlainSent
    <2>4. Dies \/ cl' = [Turn(Len(ms)) EXCEPT
                            !.method = offer.method,
                            !.kex = IF offer.guess THEN "guess"
                                    ELSE IF offer.method = "gex" THEN "group" ELSE "reply"]
      BY <1>6 DEF ReadKexinit
    <2> HIDE DEF ms, offer
    <2> QED  BY <2>1, <2>2, <2>3, <2>4
  <1> DEFINE t == Turn(1)
             z == Turn(0)
  <1>7. Shaped(t) /\ t.key = cl.key /\ Shaped(z) /\ z.key = cl.key
    BY <1>3
  <1>8. CASE DropGuess
    <2>1. \E k : cl' = [t EXCEPT !.kex = k]
      BY <1>8 DEF DropGuess
    <2> HIDE DEF t
    <2> QED  BY <1>7, <2>1 DEF Shaped, KeptKey
  <1>9. CASE ReadGroup
    <2>1. Dies \/ cl' = [t EXCEPT !.kex = "reply"]
      BY <1>9 DEF ReadGroup
    <2> HIDE DEF t
    <2> QED  BY <1>2, <1>7, <2>1 DEF Shaped, KeptKey
  <1>10. CASE ReadReply
    <2>1. \/ Dies
          \/ /\ host_key_trusted(Msg.v.key)
             /\ cl' = [t EXCEPT !.kex = "newkeys", !.key = Msg.v.key, !.out = Rekeyed(@)]
      BY <1>10 DEF ReadReply
    <2> HIDE DEF t
    <2>2. Dies \/ (host_key_trusted(Msg.v.key) /\ cl'.key = Msg.v.key)
      BY <1>7, <2>1 DEF Shaped
    <2> QED  BY <1>2, <2>2 DEF host_key_trusted, KeptKey
  <1>11. CASE ReadNewkeys
    <2> DEFINE after == [z EXCEPT !.kex = "none", !.method = "none", !.first = TRUE, !.in = Rekeyed(@)]
    <2>1. cl' = after \/ cl' = [after EXCEPT !.pc = "service", !.out = Moved(@, 1)]
      BY <1>11 DEF ReadNewkeys
    <2>a. after = [z EXCEPT !.kex = "none", !.method = "none", !.first = TRUE, !.in = Rekeyed(z.in)]
      BY <1>7 DEF Shaped
    <2> HIDE DEF z, after
    <2>2. Shaped(after) /\ after.key = cl.key
      BY <1>7, <2>a DEF Shaped
    <2> QED  BY <2>1, <2>2 DEF Shaped, KeptKey
  <1>12. CASE ReadNoise
    <2>1. cl' = t
      BY <1>12 DEF ReadNoise
    <2> QED  BY <1>7, <2>1 DEF KeptKey
  <1>13. CASE ReadAccept
    <2>1. Dies \/ \E q : cl' = [t EXCEPT !.pc = "auth", !.todo = q]
      BY <1>13 DEF ReadAccept, KeyUnreadable
    <2> HIDE DEF t
    <2> QED  BY <1>2, <1>7, <2>1 DEF Shaped, KeptKey
  <1>14. CASE ReadVerdict
    <2>1. NextMethod => Dies \/ cl' = [t EXCEPT !.todo = Tail(@)]
      BY DEF NextMethod
    <2>2. \/ Dies \/ cl' = [t EXCEPT !.todo = Tail(@)] \/ cl' = [t EXCEPT !.rounds = @ + 1]
          \/ cl' = [z EXCEPT !.pc = "ready", !.todo = <<>>, !.rounds = 0]
      BY <1>14, <2>1 DEF ReadVerdict
    <2> HIDE DEF t, z
    <2> QED  BY <1>2, <1>7, <2>2 DEF Shaped, KeptKey
  <1> QED
    BY <1>2, <1>5, <1>6, <1>8, <1>9, <1>10, <1>11, <1>12, <1>13, <1>14
    DEF Transport, OpenRefused, Break

LEMMA StepKeepsKey == SshInv /\ [SshNext]_sshVars => KeptKey
  <1> SUFFICES ASSUME SshInv, [SshNext]_sshVars PROVE KeptKey
    OBVIOUS
  <1>1. CASE cl' = cl
    BY <1>1 DEF KeptKey
  <1>2. CASE Transport
    BY <1>2, TransportKeepsKey
  <1>3. CASE Channel
    <2>1. CASE Poll
      <3> DEFINE n == Len(Returned(ch, Msg))
      <3>1. n \in Nat /\ cl' = Turn(n)
        BY <2>1 DEF Poll, Returned
      <3> QED  BY <3>1, TurnIs DEF KeptKey
    <2>2. CASE Cancel
      BY <1>1, <2>2 DEF Cancel
    <2> QED  BY <1>3, <2>1, <2>2, OperationKeepsKey DEF Channel
  <1>4. CASE Server
    <2>1. cl' = cl
      BY <1>4 DEF Server, ServerKex, ServerAuth, ServerExtra, ServerHolds, ServerHandles, CommandSays,
                  ProcessEnds, SftpServes, CatServes, Client
    <2> QED  BY <1>1, <2>1
  <1> QED  BY <1>1, <1>2, <1>3, <1>4 DEF SshNext, sshVars

\* A password, a signature or an answer is only ever on its way under keys
\* agreed on with the holder of a key known_hosts lists and does not revoke
\* (authenticate() after ReadReply's checks), and a re-key, in whatever state
\* the login or an operation is, never brings another host key (kex::run()),
\* for every known_hosts.
THEOREM SecretsAreGuarded == SshSpec => SecretsGuarded
  <1> DEFINE Sent == \A i \in DOMAIN up : up[i].m.k \in {"auth", "info"} =>
                       /\ up[i].seal[1] > 0
                       /\ \E l \in KnownHosts : l.key = cl.key /\ l.match /\ ~l.revoked
                       /\ ~\E l \in KnownHosts : l.key = cl.key /\ l.revoked
  <1>1. SshInv => Sent
    <2> SUFFICES ASSUME SshInv, NEW i \in DOMAIN up, up[i].m.k \in {"auth", "info"}
                 PROVE  /\ up[i].seal[1] > 0
                        /\ \E l \in KnownHosts : l.key = cl.key /\ l.match /\ ~l.revoked
                        /\ ~\E l \in KnownHosts : l.key = cl.key /\ l.revoked
      OBVIOUS
    <2>1. PICK S : up \in Seq(S)
      BY DEF SshInv, SshStreams, Chain
    <2>2. i \in 1..Len(up)
      BY <2>1
    <2>3. up[i].seal[1] > 0 /\ cl.first
      BY <2>2 DEF SshInv, UpGuarded
    <2>4. Status(cl.key) = "known"
      BY <2>3 DEF SshInv, KnownHost
    <2> QED  BY <2>3, <2>4 DEF Status
  <1>2. SshInv /\ SshInv' /\ [SshNext]_sshVars =>
          [/\ \A i \in DOMAIN up' : up'[i].m.k \in {"auth", "info"} =>
                /\ up'[i].seal[1] > 0
                /\ \E l \in KnownHosts : l.key = cl'.key /\ l.match /\ ~l.revoked
                /\ ~\E l \in KnownHosts : l.key = cl'.key /\ l.revoked
           /\ cl.first /\ cl'.first => cl'.key = cl.key]_sshVars
    <2> SUFFICES ASSUME SshInv, SshInv', [SshNext]_sshVars
                 PROVE  Sent' /\ KeptKey
      BY DEF KeptKey
    <2>1. Sent'
      BY <1>1, PTL
    <2> QED  BY <2>1, StepKeepsKey
  <1> QED  BY <1>2, SshInvariant, PTL DEF SshSpec, SecretsGuarded
--------------------------------------------------------------------------------
(* What an operation's channel is told, and what of it is on its way: for  *)
(* the verdict on a command.                                               *)

\* A command is run on the channel: neither a place of an upload nor idle.
Commanding == op.pc # "idle" /\ op.via = "none"

\* The operations keep to their own places.
OpSound(o) ==
    /\ o.kind = "upload" <=> o.via # "none"
    /\ o.pc \in {"subsystem", "init", "version", "handle", "closing", "abandoning", "abandon",
                 "eof", "finish", "fallback"} => o.via = "sftp"
    /\ o.pc = "writing" => o.via \in {"sftp", "cat"}
    /\ o.pc = "exit" => o.via = "cat"

OpInv == OpSound(op)

\* Channel numbers are used once: nothing is on its way for, and no process is
\* behind, a number not given out yet.
Given(m) == m.c \in Nat /\ m.c < cl.next

FreshInv ==
    /\ cl.next \in Nat /\ cl.next > 0
    /\ ch.id \in Nat /\ ch.id < cl.next
    /\ \A i \in 1..Len(up) : Given(up[i].m)
    /\ \A i \in 1..Len(down) : Given(down[i].m)
    /\ \A i \in 1..Len(srv.held) : Given(srv.held[i])
    /\ \A c \in Ids : c >= cl.next => srv.chan[c] = NoProcess

Mine(m, ks) == m.c = ch.id /\ m.k \in ks

\* The process behind the command's channel.
Process == srv.chan[ch.id]
Before == ch.id \in Ids => Process.kind \in {"none", "open"}
Over   == ch.id \in Ids /\ Process.kind = "dead"

\* What the client may have asked on the channel.
Calm(m) == m.c = ch.id =>
    /\ m.k # "subsystem"
    /\ m.k = "exec" => m.v = "none" /\ op.pc \notin {"opening", "pty"}
    /\ m.k = "close" => ch.closeIn
    /\ m.k \in {"open", "exec"} => Before

AskInv ==
    /\ op.pc \in {"opening", "pty"} => Before
    /\ \A i \in 1..Len(up) : Calm(up[i].m)
    /\ \A i \in 1..Len(srv.held) : Calm(srv.held[i])

\* The command is started once, after the channel was opened.
Clash(m, n) == Mine(m, {"exec"}) /\ Mine(n, {"open", "exec"})

OnceInv ==
    /\ \A i, j \in 1..Len(up) : i < j => ~Clash(up[i].m, up[j].m)
    /\ \A i, j \in 1..Len(srv.held) : i < j => ~Clash(srv.held[i], srv.held[j])
    /\ \A i \in 1..Len(srv.held), j \in 1..Len(up) : ~Clash(srv.held[i], up[j].m)

\* There are exactly n units of output of the channel on their way.
Output(q, i, c) == q[i].m.c = c /\ q[i].m.k = "data"

Coming(q, c, n) ==
    \/ n = 0 /\ \A i \in 1..Len(q) : ~Output(q, i, c)
    \/ n = 1 /\ \E i \in 1..Len(q) : Output(q, i, c) /\ \A j \in 1..Len(q) : Output(q, j, c) => j = i
    \/ n = 2 /\ \E i, j \in 1..Len(q) :
                   /\ i < j /\ Output(q, i, c) /\ Output(q, j, c)
                   /\ \A k \in 1..Len(q) : Output(q, k, c) => k = i \/ k = j

\* n units were said: each was received or is on its way.
Received(n) ==
    \/ n = 0 /\ ch.out = <<>>
    \/ n = 1 /\ ch.out = <<ch.id>>
    \/ n = 2 /\ ch.out = <<ch.id, ch.id>>

Told(n) == \E a, b \in 0..2 : a + b = n /\ Received(a) /\ Coming(down, ch.id, b)

\* Output comes before the exit status, and that before the close.
Misplaced(m, n) ==
    \/ Mine(n, {"data"}) /\ Mine(m, {"exit", "close"})
    \/ Mine(n, {"exit"}) /\ Mine(m, {"exit", "close"})

SpokenInv == \A i, j \in 1..Len(down) : i < j => ~Misplaced(down[i].m, down[j].m)

\* What is on its way from the command.
Own(m) == m.c = ch.id =>
    /\ m.k = "data" => ch.id \in Ids /\ m.v = ch.id
    /\ m.k = "exit" => Over /\ m.v = Process.code /\ ~ch.closeIn
    /\ m.k = "close" => Over

Exiting == \E i \in 1..Len(down) : Mine(down[i].m, {"exit"})

TellInv ==
    /\ \A i \in 1..Len(down) : Own(down[i].m)
    /\ ch.closeIn => Over
    /\ ch.id \in Ids =>
         /\ Process.kind \in {"none", "open", "cmd", "dead"}
         /\ Process.closed <=> Process.kind = "dead"
         /\ Process.kind \in {"none", "open"} => Process.said = 0
         /\ Process.kind \in {"none", "open", "cmd"} => Process.said \in 0..2 /\ Told(Process.said)
    /\ Over => Told(2)
    /\ Over => Exiting \/ (ch.exit = Process.code /\ Coming(down, ch.id, 0))

\* The records that the steps change fields of.
OpShaped(o) ==
    o = [n |-> o.n, kind |-> o.kind, via |-> o.via, pc |-> o.pc, cancel |-> o.cancel, src |-> o.src,
         next |-> o.next, pend |-> o.pend, flying |-> o.flying, ok |-> o.ok, res |-> o.res]

ChShaped(c) ==
    c = [id |-> c.id, opened |-> c.opened, failed |-> c.failed, eofIn |-> c.eofIn,
         closeIn |-> c.closeIn, closeOut |-> c.closeOut, reply |-> c.reply, exit |-> c.exit,
         out |-> c.out, window |-> c.window, consumed |-> c.consumed]

ProcessShaped(p) ==
    p = [kind |-> p.kind, pty |-> p.pty, inbox |-> p.inbox, eof |-> p.eof, closed |-> p.closed,
         room |-> p.room, said |-> p.said, code |-> p.code]

RecordInv ==
    /\ OpShaped(op) /\ ChShaped(ch)
    /\ \E T : srv.held \in Seq(T)
    /\ srv.chan = [c \in Ids |-> srv.chan[c]]
    /\ \A c \in Ids : ProcessShaped(srv.chan[c])

CommandInv == Commanding => AskInv /\ OnceInv /\ SpokenInv /\ TellInv

HonestInv == RecordInv /\ OpInv /\ FreshInv /\ CommandInv

--------------------------------------------------------------------------------
(* Packets and messages of a stream, by their places. *)

LEMMA PutPlaces ==
    ASSUME NEW q, NEW d, NEW ms, NEW r, Joined(q, d, ms, r)
    PROVE  /\ Len(q) \in Nat /\ Len(ms) \in Nat /\ Len(r) = Len(q) + Len(ms)
           /\ \A i \in 1..Len(q) : i \in 1..Len(r) /\ r[i] = q[i]
           /\ \A j \in 1..Len(ms) : Len(q) + j \in 1..Len(r) /\ r[Len(q) + j].m = ms[j]
           /\ \A i \in 1..Len(r) :
                \/ i \in 1..Len(q) /\ r[i] = q[i]
                \/ \E j \in 1..Len(ms) : i = Len(q) + j /\ r[i].m = ms[j]
  <1>1. /\ Len(q) \in Nat /\ Len(ms) \in Nat /\ Len(r) = Len(q) + Len(ms)
        /\ \A i \in 1..Len(q) : r[i] = q[i]
        /\ \A j \in 1..Len(ms) : r[Len(q) + j].m = ms[j]
    BY DEF Joined
  <1>2. ASSUME NEW i \in 1..Len(r), i \notin 1..Len(q)
        PROVE  \E j \in 1..Len(ms) : i = Len(q) + j /\ r[i].m = ms[j]
    <2>1. i - Len(q) \in 1..Len(ms) /\ i = Len(q) + (i - Len(q))
      BY <1>1, <1>2
    <2>2. r[i].m = ms[i - Len(q)]
      BY <1>1, <2>1
    <2> QED  BY <2>1, <2>2
  <1>3. \A j \in 1..Len(ms) : Len(q) + j \in 1..Len(r)
    BY <1>1
  <1>4. \A i \in 1..Len(q) : i \in 1..Len(r)
    BY <1>1
  <1> QED  BY <1>1, <1>2, <1>3, <1>4

LEMMA TailPlaces ==
    ASSUME NEW q, \E S : q \in Seq(S), q # <<>>
    PROVE  /\ Len(q) \in Nat /\ 1 \in 1..Len(q) /\ Head(q) = q[1] /\ Len(Tail(q)) \in Nat
           /\ \A i \in 1..Len(Tail(q)) : i + 1 \in 1..Len(q) /\ i + 1 # 1 /\ Tail(q)[i] = q[i + 1]
           /\ \A i \in 1..Len(q) : i # 1 => i - 1 \in 1..Len(Tail(q)) /\ Tail(q)[i - 1] = q[i]
           /\ \E S : Tail(q) \in Seq(S)
  <1>1. PICK S : q \in Seq(S)
    OBVIOUS
  <1> DEFINE t == Tail(q)
  <1>2. /\ t \in Seq(S) /\ Len(q) \in Nat /\ Len(q) >= 1 /\ Len(t) = Len(q) - 1 /\ Head(q) = q[1]
        /\ \A i \in 1..Len(t) : t[i] = q[i + 1]
    BY <1>1
  <1> HIDE DEF t
  <1>3. \A i \in 1..Len(t) : i + 1 \in 1..Len(q) /\ i + 1 # 1
    BY <1>2
  <1>4. ASSUME NEW i \in 1..Len(q), i # 1
        PROVE  i - 1 \in 1..Len(t) /\ t[i - 1] = q[i]
    <2>1. i - 1 \in 1..Len(t) /\ (i - 1) + 1 = i
      BY <1>2, <1>4
    <2>2. t[i - 1] = q[(i - 1) + 1]
      BY <1>2, <2>1
    <2> QED  BY <2>1, <2>2
  <1>5. Len(t) \in Nat /\ 1 \in 1..Len(q)
    BY <1>2
  <1> QED  BY <1>2, <1>3, <1>4, <1>5 DEF t

\* Other messages do not change what output is on its way.
LEMMA ComingPut ==
    ASSUME NEW q, NEW d, NEW ms, NEW r, Joined(q, d, ms, r), NEW c,
           \A j \in 1..Len(ms) : ~(ms[j].c = c /\ ms[j].k = "data"),
           NEW n, Coming(q, c, n)
    PROVE  Coming(r, c, n)
  <1>0. /\ \A i \in 1..Len(q) : i \in 1..Len(r) /\ r[i] = q[i]
        /\ \A i \in 1..Len(r) :
                \/ i \in 1..Len(q) /\ r[i] = q[i]
                \/ \E j \in 1..Len(ms) : i = Len(q) + j /\ r[i].m = ms[j]
    BY PutPlaces
  <1>1. \A i \in 1..Len(r) : Output(r, i, c) => i \in 1..Len(q) /\ Output(q, i, c)
    BY <1>0 DEF Output
  <1>2. \A i \in 1..Len(q) : i \in 1..Len(r) /\ (Output(q, i, c) => Output(r, i, c))
    BY <1>0 DEF Output
  <1>3. CASE n = 0 /\ \A i \in 1..Len(q) : ~Output(q, i, c)
    BY <1>1, <1>3 DEF Coming
  <1>4. CASE n = 1
    <2>1. PICK i \in 1..Len(q) : Output(q, i, c) /\ \A j \in 1..Len(q) : Output(q, j, c) => j = i
      BY <1>4 DEF Coming
    <2>2. i \in 1..Len(r) /\ Output(r, i, c) /\ \A j \in 1..Len(r) : Output(r, j, c) => j = i
      BY <1>1, <1>2, <2>1
    <2> QED  BY <1>4, <2>2 DEF Coming
  <1>5. CASE n = 2
    <2>1. PICK i \in 1..Len(q), j \in 1..Len(q) :
                   /\ i < j /\ Output(q, i, c) /\ Output(q, j, c)
                   /\ \A k \in 1..Len(q) : Output(q, k, c) => k = i \/ k = j
      BY <1>5 DEF Coming
    <2>2. /\ i \in 1..Len(r) /\ Output(r, i, c) /\ j \in 1..Len(r) /\ Output(r, j, c)
          /\ \A k \in 1..Len(r) : Output(r, k, c) => k = i \/ k = j
      BY <1>1, <1>2, <2>1
    <2> QED  BY <1>5, <2>1, <2>2 DEF Coming
  <1> QED  BY <1>3, <1>4, <1>5 DEF Coming

\* One more unit of output.
LEMMA ComingMore ==
    ASSUME NEW q, NEW d, NEW ms, NEW r, Joined(q, d, ms, r), NEW c, 1 \in 1..Len(ms),
           \A j \in 1..Len(ms) : j = 1, ms[1].c = c, ms[1].k = "data", NEW n \in {0, 1}, Coming(q, c, n)
    PROVE  Coming(r, c, n + 1)
  <1> DEFINE e == Len(q) + 1
  <1>0. /\ Len(q) \in Nat
        /\ \A i \in 1..Len(q) : i \in 1..Len(r) /\ r[i] = q[i]
        /\ \A j \in 1..Len(ms) : Len(q) + j \in 1..Len(r) /\ r[Len(q) + j].m = ms[j]
        /\ \A i \in 1..Len(r) :
                \/ i \in 1..Len(q) /\ r[i] = q[i]
                \/ \E j \in 1..Len(ms) : i = Len(q) + j /\ r[i].m = ms[j]
    BY PutPlaces
  <1>1. 1 \in 1..Len(ms) /\ \A j \in 1..Len(ms) : j = 1
    OBVIOUS
  <1>2. e \in 1..Len(r) /\ Output(r, e, c)
    BY <1>0, <1>1 DEF Output
  <1>3. \A i \in 1..Len(r) : i \in 1..Len(q) \/ i = e
    BY <1>0, <1>1
  <1>4. \A i \in 1..Len(q) : i \in 1..Len(r) /\ i < e /\ (Output(q, i, c) <=> Output(r, i, c))
    BY <1>0 DEF Output
  <1> HIDE DEF e
  <1>5. CASE n = 0
    <2>1. \A i \in 1..Len(q) : ~Output(q, i, c)
      BY <1>5 DEF Coming
    <2>2. \A i \in 1..Len(r) : Output(r, i, c) => i = e
      BY <1>3, <1>4, <2>1
    <2> QED  BY SMTT(30), <1>2, <1>5, <2>2 DEF Coming
  <1>6. CASE n = 1
    <2>1. PICK i \in 1..Len(q) : Output(q, i, c) /\ \A j \in 1..Len(q) : Output(q, j, c) => j = i
      BY <1>6 DEF Coming
    <2>2. /\ i \in 1..Len(r) /\ i < e /\ Output(r, i, c)
          /\ \A k \in 1..Len(r) : Output(r, k, c) => k = i \/ k = e
      BY <1>3, <1>4, <2>1
    <2> QED  BY <1>2, <1>6, <2>2 DEF Coming
  <1> QED  BY <1>5, <1>6

\* The first packet is read.
LEMMA ComingTail ==
    ASSUME NEW q, \E S : q \in Seq(S), q # <<>>, NEW c, NEW n, Coming(q, c, n)
    PROVE  /\ ~Output(q, 1, c) => Coming(Tail(q), c, n)
           /\ Output(q, 1, c) => n \in {1, 2} /\ Coming(Tail(q), c, n - 1)
  <1> DEFINE t == Tail(q)
  <1>0. /\ Len(q) \in Nat /\ 1 \in 1..Len(q) /\ Len(t) \in Nat
        /\ \A i \in 1..Len(t) : i + 1 \in 1..Len(q) /\ i + 1 # 1 /\ t[i] = q[i + 1]
        /\ \A i \in 1..Len(q) : i # 1 => i - 1 \in 1..Len(t) /\ t[i - 1] = q[i]
    BY TailPlaces
  <1> HIDE DEF t
  <1>1. \A i \in 1..Len(t) : Output(t, i, c) => Output(q, i + 1, c)
    BY <1>0 DEF Output
  <1>2. \A i \in 1..Len(q) : i # 1 /\ Output(q, i, c) => i - 1 \in 1..Len(t) /\ Output(t, i - 1, c)
    BY <1>0 DEF Output
  <1>3. CASE n = 0
    BY <1>0, <1>1, <1>3 DEF Coming, t
  <1>4. CASE n = 1
    <2>1. PICK i \in 1..Len(q) : Output(q, i, c) /\ \A j \in 1..Len(q) : Output(q, j, c) => j = i
      BY <1>4 DEF Coming
    <2>2. ASSUME ~Output(q, 1, c) PROVE Coming(t, c, 1)
      <3>1. i # 1
        BY <2>1, <2>2
      <3>2. i - 1 \in 1..Len(t) /\ Output(t, i - 1, c)
        BY <1>2, <2>1, <3>1
      <3>3. \A j \in 1..Len(t) : Output(t, j, c) => j = i - 1
        BY <1>0, <1>1, <2>1
      <3> QED  BY <3>2, <3>3 DEF Coming
    <2>3. ASSUME Output(q, 1, c) PROVE Coming(t, c, 0)
      <3>1. i = 1
        BY <1>0, <2>1, <2>3
      <3>2. \A j \in 1..Len(t) : ~Output(t, j, c)
        BY <1>0, <1>1, <2>1, <3>1
      <3> QED  BY <3>2 DEF Coming
    <2> QED  BY <1>4, <2>2, <2>3 DEF t
  <1>5. CASE n = 2
    <2>1. PICK i \in 1..Len(q), j \in 1..Len(q) :
                   /\ i < j /\ Output(q, i, c) /\ Output(q, j, c)
                   /\ \A k \in 1..Len(q) : Output(q, k, c) => k = i \/ k = j
      BY <1>5 DEF Coming
    <2>j. j # 1 /\ j - 1 \in 1..Len(t) /\ Output(t, j - 1, c)
      <3>1. j # 1
        BY <1>0, <2>1
      <3> QED  BY <1>2, <2>1, <3>1
    <2>2. ASSUME ~Output(q, 1, c) PROVE Coming(t, c, 2)
      <3>1. i # 1
        BY <2>1, <2>2
      <3>2. i - 1 \in 1..Len(t) /\ Output(t, i - 1, c)
        BY <1>2, <2>1, <3>1
      <3>3. \A k \in 1..Len(t) : Output(t, k, c) => k = i - 1 \/ k = j - 1
        BY <1>0, <1>1, <2>1
      <3>4. i - 1 < j - 1
        BY <1>0, <2>1
      <3> QED  BY <2>j, <3>2, <3>3, <3>4 DEF Coming
    <2>3. ASSUME Output(q, 1, c) PROVE Coming(t, c, 1)
      <3>1. i = 1
        BY <1>0, <2>1, <2>3, <2>j
      <3>2. \A k \in 1..Len(t) : Output(t, k, c) => k = j - 1
        BY <1>0, <1>1, <2>1, <3>1
      <3> QED  BY <2>j, <3>2 DEF Coming
    <2> QED  BY <1>5, <2>2, <2>3 DEF t
  <1> QED  BY <1>3, <1>4, <1>5 DEF Coming

--------------------------------------------------------------------------------
(* What leaves the invariant of a command alone. *)

Telling(m, c) == m.c = c /\ m.k \in {"data", "exit", "close"}

\* A stream that goes on without a change of what it tells of a channel.
Passes(q, r, c) ==
    /\ \A n : Coming(q, c, n) => Coming(r, c, n)
    /\ \A i \in 1..Len(q) : Telling(q[i].m, c) => \E j \in 1..Len(r) : r[j].m = q[i].m
    /\ \A i \in 1..Len(r) : Telling(r[i].m, c) => \E j \in 1..Len(q) : q[j].m = r[i].m
    /\ \A i, j \in 1..Len(r) : i < j /\ Telling(r[i].m, c) /\ Telling(r[j].m, c) =>
           \E k, l \in 1..Len(q) : k < l /\ q[k].m = r[i].m /\ q[l].m = r[j].m

LEMMA PassesSame == ASSUME NEW q, NEW c PROVE Passes(q, q, c)
  BY DEF Passes

LEMMA PassesTail ==
    ASSUME NEW q, \E S : q \in Seq(S), q # <<>>, NEW c, ~Telling(Head(q).m, c)
    PROVE  Passes(q, Tail(q), c)
  <1> DEFINE t == Tail(q)
  <1>0. /\ Len(q) \in Nat /\ 1 \in 1..Len(q) /\ Len(t) \in Nat /\ Head(q) = q[1]
        /\ \A i \in 1..Len(t) : i + 1 \in 1..Len(q) /\ i + 1 # 1 /\ t[i] = q[i + 1]
        /\ \A i \in 1..Len(q) : i # 1 => i - 1 \in 1..Len(t) /\ t[i - 1] = q[i]
    BY TailPlaces
  <1>1. ~Output(q, 1, c)
    BY <1>0 DEF Output, Telling
  <1>2. \A n : Coming(q, c, n) => Coming(t, c, n)
    BY <1>1, ComingTail
  <1> HIDE DEF t
  <1>3. \A i \in 1..Len(q) : Telling(q[i].m, c) => \E j \in 1..Len(t) : t[j].m = q[i].m
    <2> SUFFICES ASSUME NEW i \in 1..Len(q), Telling(q[i].m, c)
                 PROVE  \E j \in 1..Len(t) : t[j].m = q[i].m
      OBVIOUS
    <2>1. i # 1
      BY <1>0
    <2> QED  BY <1>0, <2>1
  <1>4. \A i \in 1..Len(t) : \E j \in 1..Len(q) : q[j].m = t[i].m
    BY <1>0
  <1>5. ASSUME NEW i \in 1..Len(t), NEW j \in 1..Len(t), i < j
        PROVE  \E k, l \in 1..Len(q) : k < l /\ q[k].m = t[i].m /\ q[l].m = t[j].m
    <2>1. i + 1 < j + 1
      BY <1>0, <1>5
    <2> QED  BY <1>0, <2>1
  <1>6. Passes(q, t, c)
    BY <1>2, <1>3, <1>4, <1>5 DEF Passes
  <1> QED  BY <1>6 DEF t

LEMMA PassesPut ==
    ASSUME NEW q, NEW d, NEW ms, NEW r, Joined(q, d, ms, r), NEW c,
           \A j \in 1..Len(ms) : ~Telling(ms[j], c)
    PROVE  Passes(q, r, c)
  <1>0. /\ \A i \in 1..Len(q) : i \in 1..Len(r) /\ r[i] = q[i]
        /\ \A i \in 1..Len(r) :
                \/ i \in 1..Len(q) /\ r[i] = q[i]
                \/ \E j \in 1..Len(ms) : i = Len(q) + j /\ r[i].m = ms[j]
    BY PutPlaces
  <1>1. \A i \in 1..Len(r) : Telling(r[i].m, c) => i \in 1..Len(q) /\ r[i] = q[i]
    BY <1>0
  <1>2. \A n : Coming(q, c, n) => Coming(r, c, n)
    <2>1. \A j \in 1..Len(ms) : ~(ms[j].c = c /\ ms[j].k = "data")
      BY DEF Telling
    <2> QED  BY <2>1, ComingPut
  <1>3. ASSUME NEW i \in 1..Len(r), NEW j \in 1..Len(r), i < j, Telling(r[i].m, c), Telling(r[j].m, c)
        PROVE  \E k, l \in 1..Len(q) : k < l /\ q[k].m = r[i].m /\ q[l].m = r[j].m
    BY <1>1, <1>3
  <1> QED  BY <1>0, <1>1, <1>2, <1>3 DEF Passes

\* The client's view of its command is as it was; the process may have begun.
SameView ==
    /\ ch'.id = ch.id /\ ch'.out = ch.out /\ ch'.exit = ch.exit /\ ch'.closeIn = ch.closeIn
    /\ ch.id \in Ids =>
         /\ \/ Process'.kind = Process.kind
            \/ Process.kind \in {"none", "open"} /\ Process'.kind \in {"none", "open", "cmd"}
         /\ Process'.closed = Process.closed /\ Process'.code = Process.code
         /\ Process.kind # "dead" => Process'.said = Process.said

LEMMA TellingKept ==
    ASSUME SpokenInv, TellInv, SameView, Passes(down, down', ch.id)
    PROVE  SpokenInv' /\ TellInv'
  <1>0. /\ ch'.id = ch.id /\ ch'.out = ch.out /\ ch'.exit = ch.exit /\ ch'.closeIn = ch.closeIn
        /\ Over' <=> Over
        /\ \A n : Received(n)' <=> Received(n)
    BY DEF SameView, Over, Received, TellInv
  <1>p. ch.id \in Ids =>
         /\ \/ Process'.kind = Process.kind
            \/ Process.kind \in {"none", "open"} /\ Process'.kind \in {"none", "open", "cmd"}
         /\ Process'.closed = Process.closed /\ Process'.code = Process.code
         /\ Process.kind # "dead" => Process'.said = Process.said
    BY DEF SameView
  <1>c. \A n : Coming(down, ch.id, n) => Coming(down', ch.id, n)
    BY DEF Passes
  <1>1. ASSUME NEW i \in 1..Len(down'), NEW j \in 1..Len(down'), i < j,
               Misplaced(down[i].m, down[j].m)'
        PROVE  FALSE
    <2>1. Telling(down'[i].m, ch.id) /\ Telling(down'[j].m, ch.id)
      BY <1>0, <1>1 DEF Misplaced, Mine, Telling
    <2>2. PICK k \in 1..Len(down), l \in 1..Len(down) :
             k < l /\ down[k].m = down'[i].m /\ down[l].m = down'[j].m
      BY <1>1, <2>1 DEF Passes
    <2>3. Misplaced(down[k].m, down[l].m)
      BY <1>0, <1>1, <2>2 DEF Misplaced, Mine
    <2> QED  BY <2>2, <2>3 DEF SpokenInv
  <1>2. SpokenInv'
    BY <1>1 DEF SpokenInv
  <1>3. ASSUME NEW i \in 1..Len(down') PROVE Own(down[i].m)'
    <2>1. CASE ~Telling(down'[i].m, ch.id)
      BY <1>0, <2>1 DEF Telling, Own
    <2>2. CASE Telling(down'[i].m, ch.id)
      <3>1. PICK j \in 1..Len(down) : down[j].m = down'[i].m
        BY <2>2 DEF Passes
      <3>2. Own(down'[i].m)
        BY <3>1 DEF TellInv
      <3>3. Over => Process'.code = Process.code
        BY <1>p DEF Over
      <3> QED  BY <1>0, <3>2, <3>3 DEF Own
    <2> QED  BY <2>1, <2>2
  <1>4. \A n : Told(n) => Told(n)'
    <2> SUFFICES ASSUME NEW n, Told(n) PROVE Told(n)'
      OBVIOUS
    <2>1. PICK a \in 0..2, b \in 0..2 : a + b = n /\ Received(a) /\ Coming(down, ch.id, b)
      BY DEF Told
    <2>2. Received(a)' /\ Coming(down', ch'.id, b)
      BY <1>0, <1>c, <2>1
    <2> QED  BY <2>1, <2>2 DEF Told
  <1>5. Exiting => Exiting'
    <2> SUFFICES ASSUME Exiting PROVE Exiting'
      OBVIOUS
    <2>1. PICK i \in 1..Len(down) : Mine(down[i].m, {"exit"})
      BY DEF Exiting
    <2>2. Telling(down[i].m, ch.id)
      BY <2>1 DEF Telling, Mine
    <2>3. PICK j \in 1..Len(down') : down'[j].m = down[i].m
      BY <2>2 DEF Passes
    <2> QED  BY <1>0, <2>1, <2>3 DEF Exiting, Mine
  <1>6. Over' => Told(2)' /\ (Exiting' \/ (ch'.exit = Process'.code /\ Coming(down', ch'.id, 0)))
    BY <1>0, <1>p, <1>c, <1>4, <1>5 DEF TellInv, Over
  <1>7. ch'.closeIn => Over'
    BY <1>0 DEF TellInv
  <1>8. ch'.id \in Ids =>
         /\ Process'.kind \in {"none", "open", "cmd", "dead"}
         /\ Process'.closed <=> Process'.kind = "dead"
         /\ Process'.kind \in {"none", "open"} => Process'.said = 0
         /\ Process'.kind \in {"none", "open", "cmd"} => Process'.said \in 0..2 /\ Told(Process.said)'
    <2> SUFFICES ASSUME ch.id \in Ids
                 PROVE  /\ Process'.kind \in {"none", "open", "cmd", "dead"}
                        /\ Process'.closed <=> Process'.kind = "dead"
                        /\ Process'.kind \in {"none", "open"} => Process'.said = 0
                        /\ Process'.kind \in {"none", "open", "cmd"} =>
                             Process'.said \in 0..2 /\ Told(Process.said)'
      BY <1>0
    <2>1. /\ Process.kind \in {"none", "open", "cmd", "dead"}
          /\ Process.closed <=> Process.kind = "dead"
          /\ Process.kind \in {"none", "open"} => Process.said = 0
          /\ Process.kind \in {"none", "open", "cmd"} => Process.said \in 0..2 /\ Told(Process.said)
      BY DEF TellInv
    <2>2. Process'.kind # "dead" => Process.kind # "dead" /\ Process'.said = Process.said
      BY <1>p
    <2>3. Process'.kind \in {"none", "open", "cmd", "dead"}
      BY <1>p, <2>1
    <2>4. Process'.closed <=> Process'.kind = "dead"
      BY <1>p, <2>1
    <2>5. Process'.kind \in {"none", "open"} => Process.kind \in {"none", "open"}
      BY <1>p
    <2>6. Process'.kind \in {"none", "open", "cmd"} => Process.kind \in {"none", "open", "cmd"}
      BY <1>p
    <2> QED  BY <1>4, <2>1, <2>2, <2>3, <2>4, <2>5, <2>6
  <1> QED  BY <1>2, <1>3, <1>6, <1>7, <1>8 DEF TellInv

\* A stream of which at most the first packet is taken.
Shrinks(q, t) == t = q \/ ((\E S : q \in Seq(S)) /\ q # <<>> /\ t = Tail(q))

\* What is in one stream is in the other, in the same order.
Within(t, q) ==
    /\ \A i \in 1..Len(t) : \E k \in 1..Len(q) : t[i] = q[k]
    /\ \A i, j \in 1..Len(t) : i < j =>
         \E k, l \in 1..Len(q) : k < l /\ t[i] = q[k] /\ t[j] = q[l]

LEMMA ShrunkPlaces ==
    ASSUME NEW q, NEW t, Shrinks(q, t)
    PROVE  Within(t, q)
  <1>1. CASE t = q
    BY <1>1 DEF Within
  <1>2. CASE (\E S : q \in Seq(S)) /\ q # <<>> /\ t = Tail(q)
    <2>1. /\ Len(t) \in Nat
          /\ \A i \in 1..Len(t) : i + 1 \in 1..Len(q) /\ t[i] = q[i + 1]
      BY <1>2, TailPlaces
    <2>2. ASSUME NEW i \in 1..Len(t), NEW j \in 1..Len(t), i < j
          PROVE  \E k, l \in 1..Len(q) : k < l /\ t[i] = q[k] /\ t[j] = q[l]
      <3>1. i + 1 < j + 1
        BY <2>1, <2>2
      <3> QED  BY <2>1, <3>1
    <2> QED  BY <2>1, <2>2 DEF Within
  <1> QED  BY <1>1, <1>2 DEF Shrinks

Beginning == {"opening", "pty"}

\* The client sends, and does not start the command.
LEMMA AskingSent ==
    ASSUME AskInv, OnceInv, NEW d, NEW ms, Joined(up, d, ms, up'), srv' = srv,
           ch'.id = ch.id, ch.closeIn => ch'.closeIn,
           op'.pc \in Beginning => op.pc \in Beginning,
           \A j \in 1..Len(ms) : /\ ~Mine(ms[j], {"open", "exec", "subsystem"})
                                 /\ Mine(ms[j], {"close"}) => ch'.closeIn
    PROVE  AskInv' /\ OnceInv'
  <1>0. /\ \A i \in 1..Len(up) : i \in 1..Len(up') /\ up'[i] = up[i]
        /\ \A i \in 1..Len(up') :
                \/ i \in 1..Len(up) /\ up'[i] = up[i]
                \/ \E j \in 1..Len(ms) : i = Len(up) + j /\ up'[i].m = ms[j]
    BY PutPlaces
  <1>1. (Before' <=> Before) /\ srv'.held = srv.held
    BY DEF Before, Process
  <1>2. ASSUME NEW m, Calm(m) PROVE Calm(m)'
    BY <1>1, <1>2 DEF Calm, Beginning
  <1>3. ASSUME NEW i \in 1..Len(up') PROVE Calm(up[i].m)'
    <2>1. CASE i \in 1..Len(up) /\ up'[i] = up[i]
      <3>1. Calm(up[i].m)
        BY <2>1 DEF AskInv
      <3> QED  BY <1>1, <2>1, <3>1 DEF Calm, Beginning
    <2>2. ASSUME NEW j \in 1..Len(ms), up'[i].m = ms[j] PROVE Calm(up[i].m)'
      BY <2>2 DEF Calm, Mine
    <2> QED  BY <1>0, <2>1, <2>2
  <1>4. AskInv'
    <2>1. \A i \in 1..Len(srv'.held) : Calm(srv.held[i])'
      <3> SUFFICES ASSUME NEW i \in 1..Len(srv.held) PROVE Calm(srv.held[i])'
        BY <1>1
      <3>1. Calm(srv.held[i])
        BY DEF AskInv
      <3> QED  BY <1>1, <3>1 DEF Calm, Beginning
    <2>2. op'.pc \in {"opening", "pty"} => Before'
      BY <1>1 DEF AskInv, Beginning
    <2> QED  BY <1>3, <2>1, <2>2 DEF AskInv
  <1>5. \A i \in 1..Len(up') : Mine(up'[i].m, {"open", "exec"}) => i \in 1..Len(up) /\ up'[i] = up[i]
    BY <1>0 DEF Mine
  <1>6. \A i \in 1..Len(up') : Mine(up'[i].m, {"exec"}) => i \in 1..Len(up) /\ up'[i] = up[i]
    BY <1>0 DEF Mine
  <1>7. OnceInv'
    <2>1. \A m, n : Clash(m, n)' <=> Clash(m, n)
      BY DEF Clash, Mine
    <2>2. ASSUME NEW i \in 1..Len(up'), NEW j \in 1..Len(up'), i < j, Clash(up'[i].m, up'[j].m)
          PROVE  FALSE
      BY <1>5, <1>6, <2>2 DEF Clash, OnceInv
    <2>3. ASSUME NEW i \in 1..Len(srv.held), NEW j \in 1..Len(up'), Clash(srv.held[i], up'[j].m)
          PROVE  FALSE
      BY <1>5, <2>3 DEF Clash, OnceInv
    <2> QED  BY <1>1, <2>2, <2>3 DEF OnceInv, Clash, Mine
  <1> QED  BY <1>4, <1>7

\* The client starts the command.
LEMMA AskingStarted ==
    ASSUME AskInv, OnceInv, op.pc \in Beginning, NEW d, NEW ms, Joined(up, d, ms, up'), srv' = srv,
           ch'.id = ch.id, ch'.closeIn = ch.closeIn, op'.pc = "exec",
           \A j \in 1..Len(ms) : j = 1, ms[1].k = "exec", ms[1].v = "none"
    PROVE  AskInv' /\ OnceInv'
  <1>0. /\ Len(up) \in Nat
        /\ \A i \in 1..Len(up) : i \in 1..Len(up') /\ up'[i] = up[i]
        /\ \A i \in 1..Len(up') :
                \/ i \in 1..Len(up) /\ up'[i] = up[i]
                \/ \E j \in 1..Len(ms) : i = Len(up) + j /\ up'[i].m = ms[j]
    BY PutPlaces
  <1>1. Before /\ Before' /\ srv'.held = srv.held
    BY DEF Before, Process, AskInv, Beginning
  <1>3. ASSUME NEW i \in 1..Len(up') PROVE Calm(up[i].m)'
    <2>1. CASE i \in 1..Len(up) /\ up'[i] = up[i]
      <3>1. Calm(up[i].m)
        BY <2>1 DEF AskInv
      <3> QED  BY <1>1, <2>1, <3>1 DEF Calm, Beginning
    <2>2. CASE up'[i].m = ms[1]
      BY <1>1, <2>2 DEF Calm
    <2> QED  BY <1>0, <2>1, <2>2
  <1>4. AskInv'
    <2>1. \A i \in 1..Len(srv'.held) : Calm(srv.held[i])'
      <3> SUFFICES ASSUME NEW i \in 1..Len(srv.held) PROVE Calm(srv.held[i])'
        BY <1>1
      <3>1. Calm(srv.held[i])
        BY DEF AskInv
      <3> QED  BY <1>1, <3>1 DEF Calm, Beginning
    <2> QED  BY <1>3, <2>1 DEF AskInv
  <1>5. /\ \A i \in 1..Len(up) : ~Mine(up[i].m, {"exec"})
        /\ \A i \in 1..Len(srv.held) : ~Mine(srv.held[i], {"exec"})
    BY DEF AskInv, Calm, Mine, Beginning
  <1>6. ASSUME NEW i \in 1..Len(up'), Mine(up'[i].m, {"exec"}) PROVE i = Len(up) + 1
    BY <1>0, <1>5, <1>6
  <1>8. \A i \in 1..Len(up') : i <= Len(up) + 1
    BY <1>0
  <1>7. OnceInv'
    <2>2. ASSUME NEW i \in 1..Len(up'), NEW j \in 1..Len(up'), i < j, Clash(up'[i].m, up'[j].m)
          PROVE  FALSE
      BY <1>0, <1>6, <1>8, <2>2 DEF Clash
    <2>3. ASSUME NEW i \in 1..Len(srv.held), NEW j \in 1..Len(up'), Clash(srv.held[i], up'[j].m)
          PROVE  FALSE
      BY <1>5, <2>3 DEF Clash
    <2>4. ASSUME NEW i \in 1..Len(srv.held), NEW j \in 1..Len(srv.held), Clash(srv.held[i], srv.held[j])
          PROVE  FALSE
      BY <1>5, <2>4 DEF Clash
    <2> QED  BY <1>1, <2>2, <2>3, <2>4 DEF OnceInv, Clash, Mine
  <1> QED  BY <1>4, <1>7

\* The server takes a request.  Either the command may still be started or
\* nothing is left that would start it.
LEMMA AskingTaken ==
    ASSUME AskInv, OnceInv, ch' = ch, op' = op, Shrinks(up, up'), Shrinks(srv.held, srv'.held),
           \/ Before => Before'
           \/ /\ op.pc \notin Beginning
              /\ \A i \in 1..Len(up') : ~Mine(up'[i].m, {"open", "exec"})
              /\ \A i \in 1..Len(srv'.held) : ~Mine(srv'.held[i], {"open", "exec"})
    PROVE  AskInv' /\ OnceInv'
  <1> DEFINE h == srv'.held
  <1>1. Within(up', up) /\ Within(h, srv.held)
    BY ShrunkPlaces
  <1>3. OnceInv'
    <2>1. ASSUME NEW i \in 1..Len(up'), NEW j \in 1..Len(up'), i < j, Clash(up'[i].m, up'[j].m)
          PROVE  FALSE
      <3>1. PICK k \in 1..Len(up), l \in 1..Len(up) : k < l /\ up'[i] = up[k] /\ up'[j] = up[l]
        BY <1>1, <2>1 DEF Within
      <3> QED  BY <2>1, <3>1 DEF OnceInv
    <2>2. ASSUME NEW i \in 1..Len(h), NEW j \in 1..Len(h), i < j, Clash(h[i], h[j])
          PROVE  FALSE
      BY <1>1, <2>2 DEF OnceInv, Within
    <2>3. ASSUME NEW i \in 1..Len(h), NEW j \in 1..Len(up'), Clash(h[i], up'[j].m)
          PROVE  FALSE
      BY ZenonT(40), <1>1, <2>3 DEF OnceInv, Within
    <2> QED  BY <2>1, <2>2, <2>3 DEF OnceInv, Clash, Mine
  <1>4. ASSUME NEW i \in 1..Len(up') PROVE Calm(up[i].m)'
    <2>1. PICK k \in 1..Len(up) : up'[i] = up[k]
      BY <1>1 DEF Within
    <2>2. Calm(up[k].m)
      BY DEF AskInv
    <2> QED  BY <2>1, <2>2 DEF Calm, Mine
  <1>5. ASSUME NEW i \in 1..Len(h) PROVE Calm(srv.held[i])'
    <2>1. PICK k \in 1..Len(srv.held) : h[i] = srv.held[k]
      BY <1>1 DEF Within
    <2>2. Calm(srv.held[k])
      BY DEF AskInv
    <2> QED  BY <2>1, <2>2 DEF Calm, Mine
  <1>6. op'.pc \in {"opening", "pty"} => Before'
    BY DEF AskInv, Beginning
  <1> QED  BY <1>3, <1>4, <1>5, <1>6 DEF AskInv

\* The server puts a request off.
LEMMA AskingHeld ==
    ASSUME AskInv, OnceInv, ch' = ch, op' = op, Before' <=> Before,
           \E S : up \in Seq(S), up # <<>>, up' = Tail(up),
           \E S : srv.held \in Seq(S), srv'.held = Append(srv.held, Head(up).m)
    PROVE  AskInv' /\ OnceInv'
  <1>1. /\ Len(up) \in Nat /\ 1 \in 1..Len(up) /\ Head(up) = up[1] /\ Len(up') \in Nat
        /\ \A i \in 1..Len(up') : i + 1 \in 1..Len(up) /\ i + 1 # 1 /\ up'[i] = up[i + 1]
    BY TailPlaces
  <1> DEFINE h == srv'.held
             n == Len(srv.held)
             m == up[1].m
  <1>2. /\ n \in Nat /\ Len(h) = n + 1 /\ h[n + 1] = m
        /\ \A i \in 1..n : h[i] = srv.held[i]
    <2>1. PICK S : srv.held \in Seq(S)
      OBVIOUS
    <2>2. srv.held \in Seq(S \cup {m}) /\ m \in S \cup {m} /\ srv'.held = Append(srv.held, m)
      BY <1>1, <2>1
    <2> HIDE DEF m
    <2> QED  BY <2>2
  <1>3. \A i \in 1..Len(h) : (i \in 1..n /\ h[i] = srv.held[i]) \/ (i = n + 1 /\ h[i] = m)
    BY <1>2
  <1>4. \A i \in 1..Len(up') : 1 < i + 1
    BY <1>1
  <1>5. OnceInv'
    <2>1. ASSUME NEW i \in 1..Len(up'), NEW j \in 1..Len(up'), i < j, Clash(up'[i].m, up'[j].m)
          PROVE  FALSE
      <3>1. i + 1 < j + 1
        BY <1>1, <2>1
      <3> QED  BY <1>1, <2>1, <3>1 DEF OnceInv
    <2>2. ASSUME NEW i \in 1..Len(h), NEW j \in 1..Len(h), i < j, Clash(h[i], h[j])
          PROVE  FALSE
      <3>1. i \in 1..n /\ h[i] = srv.held[i]
        BY <1>2, <1>3, <2>2
      <3>2. CASE j \in 1..n /\ h[j] = srv.held[j]
        BY <2>2, <3>1, <3>2 DEF OnceInv
      <3>3. CASE h[j] = m
        BY <1>1, <2>2, <3>1, <3>3 DEF OnceInv
      <3> QED  BY <1>3, <3>2, <3>3
    <2>3. ASSUME NEW i \in 1..Len(h), NEW j \in 1..Len(up'), Clash(h[i], up'[j].m)
          PROVE  FALSE
      <3>1. CASE i \in 1..n /\ h[i] = srv.held[i]
        BY <1>1, <2>3, <3>1 DEF OnceInv
      <3>2. CASE h[i] = m
        BY <1>1, <1>4, <2>3, <3>2 DEF OnceInv
      <3> QED  BY <1>3, <3>1, <3>2
    <2> QED  BY <2>1, <2>2, <2>3 DEF OnceInv, Clash, Mine
  <1>6. ASSUME NEW i \in 1..Len(up') PROVE Calm(up[i].m)'
    <2>1. Calm(up[i + 1].m) /\ up'[i] = up[i + 1]
      BY <1>1 DEF AskInv
    <2> QED  BY <2>1 DEF Calm
  <1>7. ASSUME NEW i \in 1..Len(h) PROVE Calm(srv.held[i])'
    <2>1. CASE i \in 1..n /\ h[i] = srv.held[i]
      <3>1. Calm(srv.held[i])
        BY <2>1 DEF AskInv
      <3> QED  BY <2>1, <3>1 DEF Calm
    <2>2. CASE h[i] = m
      <3>1. Calm(m)
        BY <1>1 DEF AskInv
      <3> HIDE DEF m
      <3> QED  BY <2>2, <3>1 DEF Calm
    <2> QED  BY <1>3, <2>1, <2>2
  <1>8. op'.pc \in {"opening", "pty"} => Before'
    BY DEF AskInv
  <1> QED  BY <1>5, <1>6, <1>7, <1>8 DEF AskInv
--------------------------------------------------------------------------------
(* The steps of the client. *)

LEMMA ClientSends ==
    ASSUME SshInv, NEW ms, \E T : ms \in Seq(T), Sends(ms)
    PROVE  Joined(up, cl.out, ms, up')
  <1>1. PICK S, T : up \in Seq(S) /\ ms \in Seq(T)
    BY DEF SshInv, SshStreams, Chain
  <1>2. cl.out \in Dirs
    BY DEF SshInv, ClientShape
  <1> QED  BY <1>1, <1>2, PutElements DEF Sends

\* What is on its way to the server was, or has just been sent.
Grown(q, ms, r) ==
    \A i \in 1..Len(r) :
        \/ i \in 1..Len(q) /\ r[i] = q[i]
        \/ \E j \in 1..Len(ms) : i = Len(q) + j /\ r[i].m = ms[j]

LEMMA PutGrows ==
    ASSUME NEW q, NEW d, NEW ms, NEW r, Joined(q, d, ms, r)
    PROVE  Grown(q, ms, r)
  BY PutPlaces DEF Grown

\* The client sends: what is left to show is the invariant of its command.
LEMMA ClientBase ==
    ASSUME SshInv, HonestInv, NEW ms, \E T : ms \in Seq(T), Sends(ms), srv' = srv,
           cl'.next \in Nat, cl'.next >= cl.next, Shrinks(down, down'),
           OpShaped(op'), ChShaped(ch'), OpInv', ch'.id \in Nat, ch'.id < cl'.next,
           \A j \in 1..Len(ms) : ms[j].c \in Nat /\ ms[j].c < cl'.next, CommandInv'
    PROVE  HonestInv'
  <1>1. Joined(up, cl.out, ms, up')
    BY ClientSends
  <1>2. \A i \in 1..Len(up') :
                \/ i \in 1..Len(up) /\ up'[i] = up[i]
                \/ \E j \in 1..Len(ms) : i = Len(up) + j /\ up'[i].m = ms[j]
    <2>1. Grown(up, ms, up')
      BY <1>1, PutGrows
    <2> QED  BY <2>1 DEF Grown
  <1>3. Within(down', down)
    BY ShrunkPlaces
  <1>4. FreshInv'
    <2>0. \A m : Given(m) => m.c \in Nat /\ m.c < cl'.next
      <3> SUFFICES ASSUME NEW m, Given(m) PROVE m.c \in Nat /\ m.c < cl'.next
        OBVIOUS
      <3>1. m.c \in Nat /\ m.c < cl.next /\ cl.next \in Nat
        BY DEF Given, HonestInv, FreshInv
      <3> QED  BY <3>1
    <2>1. \A i \in 1..Len(up') : up'[i].m.c \in Nat /\ up'[i].m.c < cl'.next
      BY <1>2, <2>0 DEF HonestInv, FreshInv
    <2>2. \A i \in 1..Len(down') : down'[i].m.c \in Nat /\ down'[i].m.c < cl'.next
      BY <1>3, <2>0 DEF HonestInv, FreshInv, Within
    <2>3. \A i \in 1..Len(srv.held) : srv.held[i].c \in Nat /\ srv.held[i].c < cl'.next
      BY <2>0 DEF HonestInv, FreshInv
    <2>4. \A c \in Ids : c >= cl'.next => srv.chan[c] = NoProcess
      <3> SUFFICES ASSUME NEW c \in Ids, c >= cl'.next PROVE srv.chan[c] = NoProcess
        OBVIOUS
      <3>1. c \in Nat /\ cl.next \in Nat
        BY SshSessionAssumption DEF Ids, HonestInv, FreshInv
      <3>2. c >= cl.next
        BY <3>1
      <3> QED  BY <3>2 DEF HonestInv, FreshInv
    <2>5. cl'.next > 0
      BY DEF HonestInv, FreshInv
    <2> QED  BY <2>1, <2>2, <2>3, <2>4, <2>5 DEF FreshInv, Given
  <1>5. RecordInv'
    BY DEF HonestInv, RecordInv, ProcessShaped
  <1> QED  BY <1>4, <1>5 DEF HonestInv

\* The client sends; its command, if it still has one, is as it was.
LEMMA ClientStep ==
    ASSUME SshInv, HonestInv, NEW ms, \E T : ms \in Seq(T), Sends(ms), srv' = srv,
           cl'.next = cl.next, Shrinks(down, down'), OpShaped(op'), ChShaped(ch'), OpInv',
           ch'.id = ch.id \/ ch'.id = 0,
           \A j \in 1..Len(ms) : Given(ms[j]),
           Commanding' =>
             /\ Commanding
             /\ ch'.id = ch.id /\ ch'.out = ch.out /\ ch'.exit = ch.exit /\ ch'.closeIn = ch.closeIn
             /\ down' = down \/ ~Telling(Msg, ch.id)
             /\ op'.pc \in Beginning => op.pc \in Beginning
             /\ \A j \in 1..Len(ms) : ~Mine(ms[j], {"open", "exec", "subsystem", "close"})
    PROVE  HonestInv'
  <1>1. Joined(up, cl.out, ms, up')
    BY ClientSends
  <1>2. CommandInv'
    <2> SUFFICES ASSUME Commanding' PROVE AskInv' /\ OnceInv' /\ SpokenInv' /\ TellInv'
      BY DEF CommandInv
    <2>1. AskInv /\ OnceInv /\ SpokenInv /\ TellInv
      BY DEF HonestInv, CommandInv
    <2>2. AskInv' /\ OnceInv'
      <3>1. \A j \in 1..Len(ms) : ~Mine(ms[j], {"open", "exec", "subsystem"}) /\ ~Mine(ms[j], {"close"})
        BY DEF Mine
      <3> QED  BY <1>1, <2>1, <3>1, AskingSent
    <2>3. SameView
      <3>1. Process' = Process
        BY DEF Process
      <3> QED  BY <3>1 DEF SameView
    <2>4. Passes(down, down', ch.id)
      <3>1. CASE down' = down
        BY <3>1, PassesSame
      <3>2. CASE down' # down
        BY <3>2, PassesTail DEF Shrinks, Msg
      <3> QED  BY <3>1, <3>2
    <2> QED  BY <2>1, <2>2, <2>3, <2>4, TellingKept
  <1>3. cl'.next \in Nat /\ cl'.next >= cl.next /\ ch'.id \in Nat /\ ch'.id < cl'.next
    BY DEF HonestInv, FreshInv
  <1>4. \A j \in 1..Len(ms) : ms[j].c \in Nat /\ ms[j].c < cl'.next
    BY DEF Given
  <1> QED  BY <1>2, <1>3, <1>4, ClientBase

\* What is in a stream of two parts is in one of them.
Merges(a, b, c) ==
    /\ \E U : c \in Seq(U)
    /\ \A i \in 1..Len(c) :
         (\E j \in 1..Len(a) : c[i] = a[j]) \/ (\E j \in 1..Len(b) : c[i] = b[j])

LEMMA JoinPlaces ==
    ASSUME NEW S, NEW T, NEW a \in Seq(S), NEW b \in Seq(T)
    PROVE  Merges(a, b, a \o b)
  <1>2. a \in Seq(S \cup T) /\ b \in Seq(S \cup T)
    OBVIOUS
  <1> DEFINE c == a \o b
  <1>3. /\ c \in Seq(S \cup T) /\ Len(c) = Len(a) + Len(b) /\ Len(a) \in Nat /\ Len(b) \in Nat
        /\ \A i \in 1..Len(a) : c[i] = a[i]
        /\ \A i \in 1..Len(b) : c[Len(a) + i] = b[i]
    BY <1>2
  <1> HIDE DEF c
  <1>4. ASSUME NEW i \in 1..Len(c)
        PROVE  (\E j \in 1..Len(a) : c[i] = a[j]) \/ (\E j \in 1..Len(b) : c[i] = b[j])
    <2>1. CASE i <= Len(a)
      <3>1. i \in 1..Len(a)
        BY <1>3, <2>1
      <3> QED  BY <1>3, <3>1
    <2>2. CASE i > Len(a)
      <3>1. i - Len(a) \in 1..Len(b) /\ Len(a) + (i - Len(a)) = i
        BY <1>3, <2>2
      <3>2. c[i] = b[i - Len(a)]
        BY <1>3, <3>1
      <3> QED  BY <3>1, <3>2
    <2> QED  BY <1>3, <2>1, <2>2
  <1>5. Merges(a, b, c)
    BY <1>3, <1>4 DEF Merges
  <1> QED  BY <1>5 DEF c

\* Messages of the transport.
Aloof(ms) ==
    /\ \E T : ms \in Seq(T)
    /\ \A j \in 1..Len(ms) : ms[j].c = 0 /\ ms[j].k \notin {"open", "exec", "subsystem", "close"}

LEMMA AloofOnes ==
    /\ Aloof(<<>>)
    /\ \A k, v : k \notin {"open", "exec", "subsystem", "close"} => Aloof(<<M(k, 0, v)>>)
    /\ \A a, b : Aloof(a) /\ Aloof(b) => Aloof(a \o b)
  <1>1. Aloof(<<>>)
    <2>1. <<>> \in Seq({}) /\ \A i \in 1..Len(<<>>) : FALSE
      OBVIOUS
    <2> QED  BY <2>1 DEF Aloof
  <1>2. ASSUME NEW k, NEW v, k \notin {"open", "exec", "subsystem", "close"}
        PROVE  Aloof(<<M(k, 0, v)>>)
    <2> DEFINE m == M(k, 0, v)
    <2>1. m.k = k /\ m.c = 0
      BY DEF M
    <2> HIDE DEF m
    <2>2. <<m>> \in Seq({m}) /\ \A i \in 1..Len(<<m>>) : <<m>>[i] = m
      OBVIOUS
    <2>3. Aloof(<<m>>)
      BY <1>2, <2>1, <2>2 DEF Aloof
    <2> QED  BY <2>3 DEF m
  <1>3. ASSUME NEW a, NEW b, Aloof(a), Aloof(b)
        PROVE  Aloof(a \o b)
    <2>1. PICK S, T : a \in Seq(S) /\ b \in Seq(T)
      BY <1>3 DEF Aloof
    <2> DEFINE c == a \o b
    <2>2. Merges(a, b, c)
      BY <2>1, JoinPlaces
    <2> HIDE DEF c
    <2>3. Aloof(c)
      BY <1>3, <2>2 DEF Aloof, Merges
    <2> QED  BY <2>3 DEF c
  <1> QED  BY <1>1, <1>2, <1>3

\* A packet of the transport.
LEMMA AsideStep ==
    ASSUME SshInv, HonestInv, NEW ms, Aloof(ms), Sends(ms), Aside, down # <<>>,
           Msg.k \notin {"data", "exit", "close"}, cl'.next = cl.next
    PROVE  HonestInv'
  <1>1. ch' = ch /\ op' = op /\ srv' = srv /\ down' = Tail(down)
    BY DEF Aside, Taken, Quiet
  <1>2. Shrinks(down, down')
    BY <1>1 DEF Shrinks, SshInv, SshStreams, Chain
  <1>3. OpShaped(op') /\ ChShaped(ch') /\ OpInv'
    BY <1>1 DEF HonestInv, RecordInv, OpInv, OpSound, OpShaped, ChShaped
  <1>4. \A j \in 1..Len(ms) : Given(ms[j]) /\ ~Mine(ms[j], {"open", "exec", "subsystem", "close"})
    BY DEF Aloof, Given, Mine, HonestInv, FreshInv
  <1>5. ~Telling(Msg, ch.id)
    BY DEF Telling
  <1>6. Commanding' => Commanding
    BY <1>1 DEF Commanding
  <1>7. \E T : ms \in Seq(T)
    BY DEF Aloof
  <1> QED  BY <1>1, <1>2, <1>3, <1>4, <1>5, <1>6, <1>7, ClientStep

LEMMA TurnNumber == ASSUME SshInv, NEW n PROVE Turn(n).next = cl.next /\ Shaped(Turn(n))
  <1>1. Shaped(cl)
    BY DEF SshInv, ClientShape, Shaped
  <1>2. Turn(n) = [cl EXCEPT !.in = Moved(cl.in, 1), !.out = Moved(cl.out, n)]
    BY DEF Turn
  <1> QED  BY <1>1, <1>2 DEF Shaped

LEMMA DiesHonest == ASSUME Dies PROVE HonestInv'
  <1>1. /\ cl'.next = 1 /\ up' = <<>> /\ down' = <<>> /\ op' = NoOp /\ ch' = NoChannel
        /\ srv'.held = <<>> /\ srv'.chan = [i \in Ids |-> NoProcess]
    BY DEF Dies, Closed, NewServer
  <1>2. <<>> \in Seq({}) /\ \A i \in 1..Len(<<>>) : FALSE
    OBVIOUS
  <1>3. RecordInv'
    <2>1. OpShaped(NoOp) /\ ChShaped(NoChannel) /\ ProcessShaped(NoProcess)
      BY DEF OpShaped, NoOp, ChShaped, NoChannel, ProcessShaped, NoProcess
    <2>2. srv'.chan = [c \in Ids |-> srv'.chan[c]] /\ \A c \in Ids : srv'.chan[c] = NoProcess
      BY <1>1
    <2>3. OpShaped(op)' /\ ChShaped(ch)'
      BY <1>1, <2>1 DEF OpShaped, ChShaped
    <2>4. \A c \in Ids : ProcessShaped(srv.chan[c])'
      BY <2>1, <2>2 DEF ProcessShaped
    <2> QED  BY <1>1, <1>2, <2>2, <2>3, <2>4 DEF RecordInv
  <1>4. OpInv'
    BY <1>1 DEF OpInv, OpSound, NoOp
  <1>5. FreshInv'
    <2>1. ch'.id = 0
      BY <1>1 DEF NoChannel
    <2> QED  BY <1>1, <1>2, <2>1 DEF FreshInv
  <1>6. CommandInv'
    BY <1>1 DEF CommandInv, Commanding, NoOp
  <1> QED  BY <1>3, <1>4, <1>5, <1>6 DEF HonestInv

LEMMA OpenHonest == SshInv /\ HonestInv /\ Open => HonestInv'
  <1> SUFFICES ASSUME SshInv, HonestInv, Open PROVE HonestInv'
    OBVIOUS
  <1>1. ch' = ch /\ op' = op /\ srv' = srv /\ down' = down /\ Sends(OurKexinit)
    BY DEF Open, Quiet
  <1>2. Shaped(cl) /\ cl' = [cl EXCEPT !.pc = "open", !.kex = "init", !.out = Moved(cl.out, 1)]
    BY DEF SshInv, ClientShape, Shaped, Open
  <1>3. cl'.next = cl.next
    BY <1>2 DEF Shaped
  <1>4. Aloof(OurKexinit)
    BY AloofOnes DEF OurKexinit
  <1>5. OpShaped(op') /\ ChShaped(ch') /\ OpInv' /\ (Commanding' => Commanding) /\ Shrinks(down, down')
    BY <1>1 DEF HonestInv, RecordInv, OpInv, OpSound, OpShaped, ChShaped, Commanding, Shrinks
  <1> DEFINE ms == OurKexinit
  <1> HIDE DEF ms
  <1>6. \A j \in 1..Len(ms) : Given(ms[j]) /\ ~Mine(ms[j], {"open", "exec", "subsystem", "close"})
    BY <1>4 DEF Aloof, Given, Mine, HonestInv, FreshInv, ms
  <1>7. \E T : ms \in Seq(T)
    BY <1>4 DEF Aloof, ms
  <1>8. Sends(ms)
    BY <1>1 DEF ms
  <1> QED  BY <1>1, <1>3, <1>5, <1>6, <1>7, <1>8, ClientStep

LEMMA ExchangeHonest ==
    ASSUME SshInv, HonestInv, ReadKexinit \/ DropGuess \/ ReadGroup \/ ReadReply \/ ReadNewkeys
    PROVE  HonestInv'
  <1>0. \A n : Turn(n).next = cl.next /\ Shaped(Turn(n))
    BY TurnNumber
  <1>a. \A k, v : k \notin {"open", "exec", "subsystem", "close"} => Aloof(<<M(k, 0, v)>>)
    BY AloofOnes
  <1>b. \A offer : Aloof(<<Method(offer)>>)
    BY <1>a DEF Method
  <1>c. Aloof(OurKexinit) /\ Aloof(<<>>)
    BY <1>a, AloofOnes DEF OurKexinit
  <1>d. \A k : Reads(k) => down # <<>> /\ Msg.k = k
    BY DEF Reads, Packet
  <1>1. CASE ReadKexinit
    <2> DEFINE mine == IF cl.first THEN OurKexinit ELSE <<>>
               more == IF Msg.v.guess THEN <<>> ELSE <<Method(Msg.v)>>
               ms == mine \o more
               next == IF Msg.v.guess THEN "guess" ELSE IF Msg.v.method = "gex" THEN "group" ELSE "reply"
    <2>1. Dies \/ (/\ Sends(ms) /\ Aside
                   /\ cl' = [Turn(Len(ms)) EXCEPT !.method = Msg.v.method, !.kex = next])
      BY <1>1 DEF ReadKexinit
    <2>2. Aloof(mine) /\ Aloof(more)
      BY <1>b, <1>c
    <2> HIDE DEF mine, more, next
    <2>3. Aloof(ms)
      BY <2>2, AloofOnes
    <2>4. down # <<>> /\ Msg.k = "kexinit"
      BY <1>1, <1>d DEF ReadKexinit
    <2> HIDE DEF ms
    <2>5. CASE Dies
      BY <2>5, DiesHonest
    <2>6. CASE Sends(ms) /\ Aside /\ cl' = [Turn(Len(ms)) EXCEPT !.method = Msg.v.method, !.kex = next]
      <3> DEFINE t == Turn(Len(ms))
      <3>1. t.next = cl.next /\ Shaped(t)
        BY <1>0
      <3>2. cl' = [t EXCEPT !.method = Msg.v.method, !.kex = next]
        BY <2>6
      <3> HIDE DEF t
      <3>3. cl'.next = cl.next
        BY <3>1, <3>2 DEF Shaped
      <3> QED  BY <2>3, <2>4, <2>6, <3>3, AsideStep
    <2> QED  BY <2>1, <2>5, <2>6
  <1>2. CASE DropGuess
    <2> DEFINE ms == <<Method([method |-> cl.method])>>
               next == IF cl.method = "gex" THEN "group" ELSE "reply"
    <2>1. Sends(ms) /\ Aside /\ cl' = [Turn(1) EXCEPT !.kex = next] /\ down # <<>>
      BY <1>2 DEF DropGuess, Packet
    <2>2. Msg.k = "guess"
      <3>1. down[1].m.k = "guess"
        BY <1>2 DEF DropGuess, SshInv, GuessAhead
      <3>2. Head(down) = down[1]
        <4>1. PICK S : down \in Seq(S)
          BY DEF SshInv, SshStreams, Chain
        <4> QED  BY <2>1, <4>1
      <3> QED  BY <3>1, <3>2 DEF Msg
    <2>3. Aloof(ms)
      BY <1>b
    <2> DEFINE t == Turn(1)
    <2>4. t.next = cl.next /\ Shaped(t) /\ cl' = [t EXCEPT !.kex = next]
      BY <1>0, <2>1
    <2> HIDE DEF t, ms, next
    <2>5. cl'.next = cl.next
      BY <2>4 DEF Shaped
    <2> QED  BY <2>1, <2>2, <2>3, <2>5, AsideStep
  <1>3. CASE ReadGroup
    <2> DEFINE ms == <<M("gexinit", 0, 0)>>
               t == Turn(1)
    <2>1. Dies \/ (Sends(ms) /\ Aside /\ cl' = [t EXCEPT !.kex = "reply"])
      BY <1>3 DEF ReadGroup
    <2>2. down # <<>> /\ Msg.k = "group"
      BY <1>3, <1>d DEF ReadGroup
    <2>3. Aloof(ms) /\ t.next = cl.next /\ Shaped(t)
      BY <1>0, <1>a
    <2> HIDE DEF t, ms
    <2>4. cl' = [t EXCEPT !.kex = "reply"] => cl'.next = cl.next
      BY <2>3 DEF Shaped
    <2> QED  BY <2>1, <2>2, <2>3, <2>4, AsideStep, DiesHonest
  <1>4. CASE ReadReply
    <2> DEFINE ms == <<M("newkeys", 0, 0)>>
               t == Turn(1)
               next == [t EXCEPT !.kex = "newkeys", !.key = Msg.v.key, !.out = Rekeyed(t.out)]
    <2>1. Dies \/ (Sends(ms) /\ Aside /\ cl' = next)
      BY <1>4 DEF ReadReply
    <2>2. down # <<>> /\ Msg.k = "reply"
      BY <1>4, <1>d DEF ReadReply
    <2>3. Aloof(ms) /\ t.next = cl.next /\ Shaped(t)
      BY <1>0, <1>a
    <2> HIDE DEF t, ms
    <2>4. cl' = next => cl'.next = cl.next
      BY <2>3 DEF Shaped
    <2> HIDE DEF next
    <2> QED  BY <2>1, <2>2, <2>3, <2>4, AsideStep, DiesHonest
  <1>5. CASE ReadNewkeys
    <2> DEFINE t == Turn(0)
               after == [t EXCEPT !.kex = "none", !.method = "none", !.first = TRUE,
                                  !.in = Rekeyed(t.in)]
               ms == <<M("service", 0, 0)>>
    <2>1. \/ Sends(ms) /\ cl' = [after EXCEPT !.pc = "service", !.out = Moved(after.out, 1)]
          \/ up' = up /\ cl' = after
      BY <1>5 DEF ReadNewkeys
    <2>2. down # <<>> /\ Msg.k = "newkeys" /\ Aside
      BY <1>5, <1>d DEF ReadNewkeys
    <2>3. Aloof(ms) /\ t.next = cl.next /\ Shaped(t)
      BY <1>0, <1>a
    <2>a. after = [t EXCEPT !.kex = "none", !.method = "none", !.first = TRUE, !.in = Rekeyed(t.in)]
      OBVIOUS
    <2> HIDE DEF t, ms, after
    <2>4. after.next = cl.next /\ Shaped(after)
      BY <2>3, <2>a DEF Shaped
    <2>5. cl'.next = cl.next
      BY <2>1, <2>4 DEF Shaped
    <2>6. up' = up => Sends(<<>>)
      BY NothingSent DEF Sends
    <2> QED  BY <1>c, <2>1, <2>2, <2>3, <2>5, <2>6, AsideStep
  <1> QED  BY <1>1, <1>2, <1>3, <1>4, <1>5

LEMMA LoginHonest ==
    ASSUME SshInv, HonestInv, ReadNoise \/ ReadAccept \/ ReadVerdict
    PROVE  HonestInv'
  <1>0. \A n : Turn(n).next = cl.next /\ Shaped(Turn(n))
    BY TurnNumber
  <1>a. \A k, v : k \notin {"open", "exec", "subsystem", "close"} => Aloof(<<M(k, 0, v)>>)
    BY AloofOnes
  <1>b. \A method : Aloof(Request(method))
    BY <1>a DEF Request
  <1>d. \A k : Reads(k) => down # <<>> /\ Msg.k = k
    BY DEF Reads, Packet
  <1>n. CASE NextMethod /\ down # <<>> /\ Msg.k \notin {"data", "exit", "close"}
    <2> DEFINE ms == Request(cl.todo[2])
               t == Turn(1)
    <2>1. Dies \/ (Sends(ms) /\ Aside /\ cl' = [t EXCEPT !.todo = Tail(t.todo)])
      BY <1>n DEF NextMethod
    <2>2. Aloof(ms) /\ t.next = cl.next /\ Shaped(t)
      BY <1>0, <1>b
    <2> HIDE DEF t, ms
    <2>3. cl' = [t EXCEPT !.todo = Tail(t.todo)] => cl'.next = cl.next
      BY <2>2 DEF Shaped
    <2> QED  BY <1>n, <2>1, <2>2, <2>3, AsideStep, DiesHonest
  <1>1. CASE ReadNoise
    <2> DEFINE ms == <<M("no", 0, 0)>>
    <2>1. Sends(ms) /\ Aside /\ cl' = Turn(1) /\ down # <<>> /\ Msg.k = "global"
      BY <1>1, <1>d DEF ReadNoise
    <2>2. Aloof(ms) /\ cl'.next = cl.next
      BY <1>0, <1>a, <2>1
    <2> HIDE DEF ms
    <2> QED  BY <2>1, <2>2, AsideStep
  <1>2. CASE ReadAccept
    <2>1. down # <<>> /\ Msg.k = "accept"
      BY <1>2, <1>d DEF ReadAccept
    <2>2. CASE Dies
      BY <2>2, DiesHonest
    <2>3. ASSUME NEW todo, Sends(Request(Head(todo))), Aside,
                 cl' = [Turn(1) EXCEPT !.pc = "auth", !.todo = todo]
          PROVE  HonestInv'
      <3> DEFINE ms == Request(Head(todo))
                 t == Turn(1)
      <3>1. Aloof(ms) /\ t.next = cl.next /\ Shaped(t) /\ Sends(ms)
            /\ cl' = [t EXCEPT !.pc = "auth", !.todo = todo]
        BY <1>0, <1>b, <2>3
      <3> HIDE DEF t, ms
      <3>2. cl'.next = cl.next
        BY <3>1 DEF Shaped
      <3> QED  BY <2>1, <2>3, <3>1, <3>2, AsideStep
    <2> QED  BY <1>2, <2>2, <2>3 DEF ReadAccept, KeyUnreadable
  <1>3. CASE ReadVerdict
    <2>1. CASE Reads("failure") /\ NextMethod
      BY <1>d, <1>n, <2>1
    <2>2. CASE /\ Reads("success") /\ UNCHANGED up /\ Aside
               /\ cl' = [Turn(0) EXCEPT !.pc = "ready", !.todo = <<>>, !.rounds = 0]
      <3> DEFINE t == Turn(0)
      <3>1. t.next = cl.next /\ Shaped(t) /\ cl' = [t EXCEPT !.pc = "ready", !.todo = <<>>, !.rounds = 0]
        BY <1>0, <2>2
      <3> HIDE DEF t
      <3>2. cl'.next = cl.next
        BY <3>1 DEF Shaped
      <3>3. Sends(<<>>) /\ Aloof(<<>>)
        BY <2>2, NothingSent, AloofOnes DEF Sends
      <3> QED  BY <1>d, <2>2, <3>2, <3>3, AsideStep
    <2>3. CASE Reads("ask")
      <3>1. CASE NextMethod
        BY <1>d, <1>n, <2>3, <3>1
      <3>2. CASE /\ Sends(<<M("info", 0, 0)>>) /\ Aside
                 /\ cl' = [Turn(1) EXCEPT !.rounds = @ + 1]
        <4> DEFINE t == Turn(1)
                   ms == <<M("info", 0, 0)>>
        <4>1. t.next = cl.next /\ Shaped(t) /\ cl' = [t EXCEPT !.rounds = @ + 1] /\ Aloof(ms) /\ Sends(ms)
          BY <1>0, <1>a, <3>2
        <4> HIDE DEF t, ms
        <4>2. cl'.next = cl.next
          BY <4>1 DEF Shaped
        <4> QED  BY <1>d, <2>3, <3>2, <4>1, <4>2, AsideStep
      <3>3. ~Reads("success") /\ ~Reads("failure")
        BY <2>3 DEF Reads
      <3> QED  BY <1>3, <3>1, <3>2, <3>3 DEF ReadVerdict
    <2> QED  BY <1>3, <2>1, <2>2, <2>3 DEF ReadVerdict
  <1> QED  BY <1>1, <1>2, <1>3
--------------------------------------------------------------------------------
(* The operations. *)

\* Messages on the client's channel; and such as neither start nor end anything.
Ours(ms) == (\E T : ms \in Seq(T)) /\ \A j \in 1..Len(ms) : ms[j].c = ch.id
Mild(ms) == Ours(ms) /\ \A j \in 1..Len(ms) : ms[j].k \notin {"open", "exec", "subsystem", "close"}

LEMMA OursOnes ==
    /\ Mild(<<>>) /\ Mild(Eof) /\ Ours(Hang) /\ Ours(Eof \o Hang)
    /\ \A v : Mild(Unit(v)) /\ Mild(Unit(v) \o Eof)
    /\ \A v, w : Mild(Unit(v) \o Unit(w))
    /\ \A k, v : Ours(<<M(k, ch.id, v)>>)
    /\ \A v : Mild(<<M("pty", ch.id, v)>>)
  <1>1. Mild(<<>>)
    <2>1. <<>> \in Seq({}) /\ \A i \in 1..Len(<<>>) : FALSE
      OBVIOUS
    <2> QED  BY <2>1 DEF Mild, Ours
  <1>2. ASSUME NEW k, NEW v
        PROVE  /\ Ours(<<M(k, ch.id, v)>>)
               /\ k \notin {"open", "exec", "subsystem", "close"} => Mild(<<M(k, ch.id, v)>>)
    <2> DEFINE m == M(k, ch.id, v)
    <2>1. m.k = k /\ m.c = ch.id
      BY DEF M
    <2> HIDE DEF m
    <2>2. <<m>> \in Seq({m}) /\ \A i \in 1..Len(<<m>>) : <<m>>[i] = m
      OBVIOUS
    <2>3. Ours(<<m>>)
      BY <2>1, <2>2 DEF Ours
    <2>4. k \notin {"open", "exec", "subsystem", "close"} => Mild(<<m>>)
      BY <2>1, <2>2, <2>3 DEF Mild
    <2> QED  BY <2>3, <2>4 DEF m
  <1>3. ASSUME NEW a, NEW b, Ours(a), Ours(b)
        PROVE  Ours(a \o b) /\ (Mild(a) /\ Mild(b) => Mild(a \o b))
    <2>1. PICK S, T : a \in Seq(S) /\ b \in Seq(T)
      BY <1>3 DEF Ours
    <2> DEFINE c == a \o b
    <2>2. Merges(a, b, c)
      BY <2>1, JoinPlaces
    <2> HIDE DEF c
    <2>3. Ours(c)
      BY <1>3, <2>2 DEF Ours, Merges
    <2>4. ASSUME Mild(a), Mild(b) PROVE Mild(c)
      BY <2>2, <2>3, <2>4 DEF Mild, Merges
    <2> QED  BY <2>3, <2>4 DEF c
  <1>4. \A v : Mild(Unit(v)) /\ Mild(<<M("pty", ch.id, v)>>)
    BY <1>2 DEF Unit
  <1>5. Mild(Eof)
    BY <1>1, <1>2 DEF Eof
  <1>6. Ours(Hang)
    BY <1>1, <1>2 DEF Hang, Mild
  <1>7. \A a, b : Mild(a) /\ Mild(b) => Mild(a \o b)
    BY <1>3 DEF Mild
  <1>8. Ours(Eof \o Hang)
    BY <1>3, <1>5, <1>6 DEF Mild
  <1> QED  BY <1>1, <1>2, <1>4, <1>5, <1>6, <1>7, <1>8

\* An operation moves on.
LEMMA GoesStep ==
    ASSUME SshInv, HonestInv, NEW ms, NEW x, Goes(ms, x), Ours(ms), OpShaped(x), OpSound(x),
           ChShaped(ch'), ch'.id = ch.id \/ ch'.id = 0,
           \/ x.pc = "idle" \/ x.via # "none"
           \/ /\ Mild(ms) /\ Commanding
              /\ ch'.id = ch.id /\ ch'.out = ch.out /\ ch'.exit = ch.exit /\ ch'.closeIn = ch.closeIn
              /\ x.pc \in Beginning => op.pc \in Beginning
    PROVE  HonestInv'
  <1>1. op' = x /\ srv' = srv /\ down' = down /\ Sends(ms) /\ cl' = [cl EXCEPT !.out = Moved(@, Len(ms))]
    BY DEF Goes
  <1>2. cl'.next = cl.next
    <2>1. Shaped(cl)
      BY DEF SshInv, ClientShape, Shaped
    <2> QED  BY <1>1, <2>1 DEF Shaped
  <1>3. OpShaped(op') /\ OpInv' /\ Shrinks(down, down')
    BY <1>1 DEF OpInv, Shrinks
  <1>4. \A j \in 1..Len(ms) : Given(ms[j])
    BY DEF Ours, Given, HonestInv, FreshInv
  <1>5. \E T : ms \in Seq(T)
    BY DEF Ours
  <1>6. Commanding' =>
          /\ Mild(ms) /\ Commanding
          /\ ch'.id = ch.id /\ ch'.out = ch.out /\ ch'.exit = ch.exit /\ ch'.closeIn = ch.closeIn
          /\ op'.pc \in Beginning => op.pc \in Beginning
    BY <1>1 DEF Commanding
  <1>7. Mild(ms) => \A j \in 1..Len(ms) : ~Mine(ms[j], {"open", "exec", "subsystem", "close"})
    BY DEF Mild, Mine
  <1> QED  BY <1>1, <1>2, <1>3, <1>4, <1>5, <1>6, <1>7, ClientStep

\* What the steps make of the operation and of its channel.
LEMMA OperationShapes ==
    ASSUME HonestInv
    PROVE  /\ \A res : /\ OpShaped(Done(res)) /\ OpSound(Done(res)) /\ Done(res).pc = "idle"
                       /\ Done(res).res = res
           /\ OpShaped(Lost) /\ OpSound(Lost) /\ (Lost.pc = "idle" \/ Lost.via # "none")
           /\ op.via = "sftp" => /\ OpShaped(Concluded) /\ OpSound(Concluded)
                                 /\ Concluded.pc = "idle" \/ Concluded.via # "none"
           /\ \A p : /\ OpShaped([op EXCEPT !.pc = p]) /\ [op EXCEPT !.pc = p].pc = p
                     /\ [op EXCEPT !.pc = p].via = op.via /\ [op EXCEPT !.pc = p].kind = op.kind
                     /\ [op EXCEPT !.pc = p].res = op.res
  <1>1. OpShaped(op) /\ OpSound(op)
    BY DEF HonestInv, RecordInv, OpInv
  <1>2. ASSUME NEW res PROVE /\ OpShaped(Done(res)) /\ OpSound(Done(res)) /\ Done(res).pc = "idle"
                             /\ Done(res).res = res
    <2> DEFINE x == Done(res)
    <2>1. OpShaped(NoOp) /\ NoOp.pc = "idle" /\ NoOp.kind = "none" /\ NoOp.via = "none"
      BY DEF NoOp, OpShaped
    <2>2. x = [NoOp EXCEPT !.n = op.n, !.res = res]
      BY DEF Done
    <2> HIDE DEF x
    <2>3. OpShaped(x) /\ x.pc = "idle" /\ x.res = res /\ x.kind = "none" /\ x.via = "none"
      BY <2>1, <2>2 DEF OpShaped
    <2>4. OpSound(x)
      BY <2>3 DEF OpSound
    <2> QED  BY <2>3, <2>4 DEF x
  <1>3. ASSUME NEW p PROVE /\ OpShaped([op EXCEPT !.pc = p]) /\ [op EXCEPT !.pc = p].pc = p
                     /\ [op EXCEPT !.pc = p].via = op.via /\ [op EXCEPT !.pc = p].kind = op.kind
                     /\ [op EXCEPT !.pc = p].res = op.res
    BY <1>1 DEF OpShaped
  <1>4. ASSUME op.via = "sftp", NEW p \in {"eof", "fallback"}
        PROVE  OpSound([op EXCEPT !.pc = p])
    BY <1>1, <1>3, <1>4 DEF OpSound
  <1>5. OpShaped(Lost) /\ OpSound(Lost) /\ (Lost.pc = "idle" \/ Lost.via # "none")
    BY <1>2, <1>3, <1>4 DEF Lost
  <1>6. op.via = "sftp" => /\ OpShaped(Concluded) /\ OpSound(Concluded)
                           /\ Concluded.pc = "idle" \/ Concluded.via # "none"
    BY <1>2, <1>3, <1>4 DEF Concluded
  <1> QED  BY <1>2, <1>3, <1>5, <1>6

LEMMA ChannelShapes ==
    ASSUME HonestInv
    PROVE  /\ ChShaped(ch) /\ ChShaped(NoChannel) /\ NoChannel.id = 0
           /\ \A w : LET x == [ch EXCEPT !.window = w] IN
                ChShaped(x) /\ x.id = ch.id /\ x.out = ch.out /\ x.exit = ch.exit /\ x.closeIn = ch.closeIn
           /\ \A r : LET x == [ch EXCEPT !.reply = r] IN
                ChShaped(x) /\ x.id = ch.id /\ x.out = ch.out /\ x.exit = ch.exit /\ x.closeIn = ch.closeIn
           /\ \A o : LET x == [ch EXCEPT !.out = o] IN ChShaped(x) /\ x.id = ch.id
           /\ \A o : LET x == [ch EXCEPT !.closeOut = o] IN ChShaped(x) /\ x.id = ch.id
           /\ \A o, w : LET x == [[ch EXCEPT !.window = w] EXCEPT !.out = o] IN
                ChShaped(x) /\ x.id = ch.id
  <1>1. ChShaped(ch)
    BY DEF HonestInv, RecordInv
  <1>2. ChShaped(NoChannel) /\ NoChannel.id = 0
    BY DEF NoChannel, ChShaped
  <1>3. ASSUME NEW w PROVE LET x == [ch EXCEPT !.window = w] IN
          ChShaped(x) /\ x.id = ch.id /\ x.out = ch.out /\ x.exit = ch.exit /\ x.closeIn = ch.closeIn
    BY <1>1 DEF ChShaped
  <1>4. ASSUME NEW w PROVE LET x == [ch EXCEPT !.reply = w] IN
          ChShaped(x) /\ x.id = ch.id /\ x.out = ch.out /\ x.exit = ch.exit /\ x.closeIn = ch.closeIn
    BY <1>1 DEF ChShaped
  <1>5. ASSUME NEW o PROVE LET x == [ch EXCEPT !.out = o] IN ChShaped(x) /\ x.id = ch.id
    BY <1>1 DEF ChShaped
  <1>6. ASSUME NEW o PROVE LET x == [ch EXCEPT !.closeOut = o] IN ChShaped(x) /\ x.id = ch.id
    BY <1>1 DEF ChShaped
  <1>7. ASSUME NEW o, NEW w
        PROVE  LET x == [[ch EXCEPT !.window = w] EXCEPT !.out = o] IN ChShaped(x) /\ x.id = ch.id
    <2> DEFINE y == [ch EXCEPT !.window = w]
    <2>1. ChShaped(y) /\ y.id = ch.id
      BY <1>3
    <2> HIDE DEF y
    <2>2. LET x == [y EXCEPT !.out = o] IN ChShaped(x) /\ x.id = ch.id
      BY <2>1 DEF ChShaped
    <2> QED  BY <2>2 DEF y
  <1> QED  BY <1>1, <1>2, <1>3, <1>4, <1>5, <1>6, <1>7

\* The operations on a channel that is open.
LEMMA OperationHonest ==
    ASSUME SshInv, HonestInv,
           \/ OpenFailed \/ Marked \/ Input \/ Exited
           \/ SftpInit \/ SftpOpen \/ SftpHandle \/ SftpWrite \/ SftpStatus \/ SftpClose \/ SftpClosed
           \/ Abandon \/ Abandoned \/ Finish \/ Finished \/ CatWrite \/ CancelSeen \/ TimesOut
    PROVE  HonestInv'
  <1>0. OpShaped(op) /\ OpSound(op)
    BY DEF HonestInv, RecordInv, OpInv
  <1>s. /\ ChShaped(ch) /\ ChShaped(NoChannel) /\ NoChannel.id = 0
        /\ ChShaped(Spent) /\ Spent.id = ch.id /\ Spent.out = ch.out /\ Spent.exit = ch.exit
        /\ Spent.closeIn = ch.closeIn
        /\ ChShaped(Taking) /\ Taking.id = ch.id
        /\ ChShaped([ch EXCEPT !.window = @ - 2]) /\ [ch EXCEPT !.window = @ - 2].id = ch.id
        /\ ChShaped([ch EXCEPT !.closeOut = TRUE]) /\ [ch EXCEPT !.closeOut = TRUE].id = ch.id
        /\ ChShaped([Spent EXCEPT !.out = Tail(@)]) /\ [Spent EXCEPT !.out = Tail(@)].id = ch.id
    BY ChannelShapes DEF Spent, Taking
  <1>k. \/ ch' \in {ch, NoChannel, Spent, Taking, [ch EXCEPT !.window = @ - 2],
                    [ch EXCEPT !.closeOut = TRUE], [Spent EXCEPT !.out = Tail(@)]}
    <2>1. Dropped => ch' = ch \/ ch' = NoChannel
      BY DEF Dropped
    <2> HIDE DEF Dropped
    <2>2. CASE OpenFailed \/ Marked \/ Input \/ Exited \/ CatWrite \/ CancelSeen \/ TimesOut \/ Finished
      BY <2>1, <2>2 DEF OpenFailed, Marked, Input, Exited, CatWrite, CancelSeen, TimesOut, Finished
    <2>3. CASE SftpInit \/ SftpOpen \/ SftpHandle \/ SftpWrite \/ SftpStatus \/ SftpClose \/ SftpClosed
      BY <2>3 DEF SftpInit, SftpOpen, SftpHandle, SftpWrite, SftpStatus, SftpClose, SftpClosed
    <2>4. CASE Abandon \/ Abandoned \/ Finish
      BY <2>4 DEF Abandon, Abandoned, Finish
    <2> QED  BY <2>2, <2>3, <2>4
  <1>c. ChShaped(ch') /\ (ch'.id = ch.id \/ ch'.id = 0)
    BY <1>s, <1>k
  <1>a. ASSUME NEW ms, NEW x, Goes(ms, x), Ours(ms), OpShaped(x), OpSound(x),
               x.pc = "idle" \/ x.via # "none"
        PROVE  HonestInv'
    BY <1>a, <1>c, GoesStep
  <1>m. Ours(<<>>) /\ Ours(Hang) /\ Ours(Eof) /\ Ours(Eof \o Hang) /\ \A v : Ours(Unit(v))
    BY OursOnes DEF Mild
  <1>n. \A v, w : Ours(Unit(v) \o Unit(w))
    BY OursOnes DEF Mild
  <1>1. \A res : Goes(<<>>, Done(res)) => HonestInv'
    BY <1>a, <1>m, OperationShapes
  <1>2. Goes(<<>>, Lost) \/ Goes(Hang, Lost) => HonestInv'
    BY <1>a, <1>m, OperationShapes
  <1>3. op.via = "sftp" /\ Goes(<<>>, Concluded) => HonestInv'
    BY <1>a, <1>m, OperationShapes
  \* A step of an upload.
  <1>u. ASSUME NEW ms, NEW x, Goes(ms, x), Ours(ms), OpShaped(x), OpSound(x), x.via = op.via,
               op.via # "none"
        PROVE  HonestInv'
    BY <1>a, <1>u
  <1>4. ASSUME op.via = "sftp", NEW ms, Ours(ms), NEW p \in {"init", "version", "handle", "writing",
               "closing", "abandoning", "abandon", "eof", "finish", "fallback"},
               Goes(ms, [op EXCEPT !.pc = p])
        PROVE  HonestInv'
    <2> DEFINE x == [op EXCEPT !.pc = p]
    <2>1. OpShaped(x) /\ x.pc = p /\ x.via = op.via /\ x.kind = op.kind
      BY OperationShapes
    <2>2. Goes(ms, x)
      BY <1>4
    <2> HIDE DEF x
    <2>3. OpSound(x)
      BY <1>0, <1>4, <2>1 DEF OpSound
    <2> QED  BY <1>4, <1>u, <2>1, <2>2, <2>3
  \* The command's own steps.
  <1>5. CASE Marked \/ Input
    <2>1. ASSUME NEW ms, Mild(ms), NEW p \in {"input", "output"}, Goes(ms, [op EXCEPT !.pc = p]),
                 ch' = ch \/ ch' = Spent, op.pc # "idle"
          PROVE  HonestInv'
      <3> DEFINE x == [op EXCEPT !.pc = p]
      <3>1. OpShaped(x) /\ x.pc = p /\ x.via = op.via /\ x.kind = op.kind
        BY OperationShapes
      <3>2. Goes(ms, x) /\ Ours(ms)
        BY <2>1 DEF Mild
      <3> HIDE DEF x
      <3>3. OpSound(x)
        BY <1>0, <2>1, <3>1 DEF OpSound
      <3>4. CASE op.via # "none"
        BY <1>u, <3>1, <3>2, <3>3, <3>4
      <3>5. CASE op.via = "none"
        <4>1. Commanding /\ x.pc \notin Beginning
          BY <2>1, <3>1, <3>5 DEF Commanding, Beginning
        <4>2. ch'.id = ch.id /\ ch'.out = ch.out /\ ch'.exit = ch.exit /\ ch'.closeIn = ch.closeIn
          BY <1>s, <2>1
        <4> QED  BY <1>c, <2>1, <3>1, <3>2, <3>3, <4>1, <4>2, GoesStep
      <3> QED  BY <3>4, <3>5
    <2>2. CASE Marked
      <3>1. PICK p \in {"input", "output"} : Goes(<<>>, [op EXCEPT !.pc = p]) /\ ch' = ch /\ op.pc # "idle"
        BY <2>2 DEF Marked, At
      <3>2. Mild(<<>>)
        BY OursOnes
      <3> QED  BY <2>1, <3>1, <3>2
    <2>3. CASE Input
      <3>1. CASE Goes(<<>>, Lost)
        BY <1>2, <3>1
      <3>2. CASE Goes(Unit(0) \o Eof, [op EXCEPT !.pc = "output"]) /\ ch' = Spent
        <4>1. Mild(Unit(0) \o Eof) /\ op.pc # "idle"
          BY <2>3, OursOnes DEF Input, At
        <4> QED  BY <2>1, <3>2, <4>1
      <3> QED  BY <2>3, <3>1, <3>2 DEF Input
    <2> QED  BY <1>5, <2>2, <2>3
  <1>6. CASE OpenFailed \/ Exited
    BY <1>1, <1>2, <1>6 DEF OpenFailed, Exited
  <1>7. CASE Finished
    <2>1. op.via = "sftp"
      BY <1>0, <1>7 DEF Finished, At, OpSound
    <2> QED  BY <1>3, <1>7, <2>1 DEF Finished
  <1>8. CASE SftpInit
    <2>1. op.via = "sftp"
      BY <1>0, <1>8 DEF SftpInit, At, OpSound
    <2>2. CASE Goes(Unit(Req("init", 0, 0)), [op EXCEPT !.pc = "version"])
      BY <1>4, <1>m, <2>1, <2>2
    <2> QED  BY <1>2, <1>8, <2>2 DEF SftpInit
  <1>9. CASE SftpHandle
    <2>1. op.via = "sftp"
      BY <1>0, <1>9 DEF SftpHandle, At, OpSound
    <2>2. CASE Goes(<<>>, [op EXCEPT !.pc = "writing"])
      BY <1>4, <1>m, <2>1, <2>2
    <2> QED  BY <1>2, <1>9, <2>2 DEF SftpHandle
  <1>10. CASE SftpOpen
    <2>1. op.via = "sftp"
      BY <1>0, <1>10 DEF SftpOpen, At, OpSound
    <2> DEFINE x == [op EXCEPT !.pc = "handle", !.next = @ + 1]
               ms == Unit(Req("open", op.next, 0))
    <2>2. Goes(<<>>, Lost) \/ Goes(ms, x)
      BY <1>10 DEF SftpOpen
    <2>a. x = [op EXCEPT !.pc = "handle", !.next = op.next + 1]
      OBVIOUS
    <2> HIDE DEF x
    <2>3. OpShaped(x) /\ x.pc = "handle" /\ x.via = op.via /\ x.kind = op.kind
      BY <1>0, <2>a DEF OpShaped
    <2>4. OpSound(x)
      BY <1>0, <2>1, <2>3 DEF OpSound
    <2>5. Ours(ms)
      BY <1>m
    <2> HIDE DEF ms
    <2> QED  BY <1>2, <1>u, <2>1, <2>2, <2>3, <2>4, <2>5
  <1>11. CASE SftpWrite
    <2>1. op.via = "sftp" /\ op.pc = "writing"
      BY <1>11 DEF SftpWrite, At
    <2> DEFINE x == [op EXCEPT !.src = @ + 1, !.next = @ + 1, !.flying = @ + 1,
                               !.pend = @ \cup {op.next % InFlight}]
               ms == Unit(Req("write", op.next, op.src + 1))
    <2>2. Goes(<<>>, Lost) \/ Goes(ms, x)
      BY <1>11 DEF SftpWrite
    <2>a. x = [op EXCEPT !.src = op.src + 1, !.next = op.next + 1, !.flying = op.flying + 1,
                         !.pend = op.pend \cup {op.next % InFlight}]
      OBVIOUS
    <2> HIDE DEF x
    <2>3. OpShaped(x) /\ x.pc = op.pc /\ x.via = op.via /\ x.kind = op.kind
      BY <1>0, <2>a DEF OpShaped
    <2>4. OpSound(x)
      BY <1>0, <2>1, <2>3 DEF OpSound
    <2>5. Ours(ms)
      BY <1>m
    <2> HIDE DEF ms
    <2> QED  BY <1>2, <1>u, <2>1, <2>2, <2>3, <2>4, <2>5
  <1>12. CASE SftpStatus
    <2>1. op.via = "sftp" /\ op.pc = "writing"
      BY <1>12 DEF SftpStatus, At
    <2> DEFINE x == [op EXCEPT !.pend = @ \ {Reply.id % InFlight}, !.flying = @ - 1]
    <2>2. Goes(<<>>, Lost) \/ Goes(<<>>, x)
      BY <1>12 DEF SftpStatus
    <2>a. x = [op EXCEPT !.pend = op.pend \ {Reply.id % InFlight}, !.flying = op.flying - 1]
      OBVIOUS
    <2> HIDE DEF x
    <2>3. OpShaped(x) /\ x.pc = op.pc /\ x.via = op.via /\ x.kind = op.kind
      BY <1>0, <2>a DEF OpShaped
    <2>4. OpSound(x)
      BY <1>0, <2>1, <2>3 DEF OpSound
    <2> QED  BY <1>2, <1>m, <1>u, <2>1, <2>2, <2>3, <2>4
  <1>13. CASE SftpClose
    <2>1. op.via = "sftp"
      BY <1>13 DEF SftpClose
    <2> DEFINE x == [op EXCEPT !.pc = "closing", !.next = @ + 1]
               ms == Unit(Req("close", op.next, 0))
    <2>2. Goes(<<>>, Lost) \/ Goes(ms, x)
      BY <1>13 DEF SftpClose
    <2>a. x = [op EXCEPT !.pc = "closing", !.next = op.next + 1]
      OBVIOUS
    <2> HIDE DEF x
    <2>3. OpShaped(x) /\ x.pc = "closing" /\ x.via = op.via /\ x.kind = op.kind
      BY <1>0, <2>a DEF OpShaped
    <2>4. OpSound(x)
      BY <1>0, <2>1, <2>3 DEF OpSound
    <2>5. Ours(ms)
      BY <1>m
    <2> HIDE DEF ms
    <2> QED  BY <1>2, <1>u, <2>1, <2>2, <2>3, <2>4, <2>5
  <1>14. CASE SftpClosed
    <2>1. op.via = "sftp"
      BY <1>0, <1>14 DEF SftpClosed, At, OpSound
    <2> DEFINE x == [op EXCEPT !.pc = "eof", !.ok = TRUE]
    <2>2. Goes(<<>>, Lost) \/ Goes(<<>>, x)
      BY <1>14 DEF SftpClosed
    <2>a. x = [op EXCEPT !.pc = "eof", !.ok = TRUE]
      OBVIOUS
    <2> HIDE DEF x
    <2>3. OpShaped(x) /\ x.pc = "eof" /\ x.via = op.via /\ x.kind = op.kind
      BY <1>0, <2>a DEF OpShaped
    <2>4. OpSound(x)
      BY <1>0, <2>1, <2>3 DEF OpSound
    <2> QED  BY <1>2, <1>m, <1>u, <2>1, <2>2, <2>3, <2>4
  <1>15. CASE Abandon
    <2>1. op.via = "sftp"
      BY <1>0, <1>15 DEF Abandon, At, OpSound
    <2> DEFINE x == [op EXCEPT !.pc = "abandon", !.next = @ + 2]
               ms == Unit(Req("close", op.next, 0)) \o Unit(Req("remove", op.next + 1, 0))
    <2>2. Goes(<<>>, Lost) \/ Goes(ms, x)
      BY <1>15 DEF Abandon
    <2>a. x = [op EXCEPT !.pc = "abandon", !.next = op.next + 2]
      OBVIOUS
    <2> HIDE DEF x
    <2>3. OpShaped(x) /\ x.pc = "abandon" /\ x.via = op.via /\ x.kind = op.kind
      BY <1>0, <2>a DEF OpShaped
    <2>4. OpSound(x)
      BY <1>0, <2>1, <2>3 DEF OpSound
    <2>5. Ours(ms)
      BY <1>n
    <2> HIDE DEF ms
    <2> QED  BY <1>2, <1>u, <2>1, <2>2, <2>3, <2>4, <2>5
  <1>16. CASE Abandoned
    BY <1>2, <1>16 DEF Abandoned
  <1>17. CASE Finish
    <2>1. op.via = "sftp"
      BY <1>0, <1>17 DEF Finish, At, OpSound
    <2>2. Goes(Eof \o Hang, [op EXCEPT !.pc = "finish"])
      BY <1>17 DEF Finish
    <2> QED  BY <1>4, <1>m, <2>1, <2>2
  <1>18. CASE CatWrite
    <2>1. op.via = "cat" /\ op.pc = "writing"
      BY <1>18 DEF CatWrite, At
    <2> DEFINE x == [op EXCEPT !.pc = "exit"]
               y == [op EXCEPT !.src = @ + 1]
               ms == Unit(op.src + 1)
    <2>2. Goes(<<>>, Lost) \/ Goes(Eof, x) \/ Goes(ms, y)
      BY <1>18 DEF CatWrite
    <2>3. /\ OpShaped(x) /\ x.pc = "exit" /\ x.via = op.via /\ x.kind = op.kind
          /\ OpShaped(y) /\ y.pc = op.pc /\ y.via = op.via /\ y.kind = op.kind
      BY <1>0 DEF OpShaped
    <2> HIDE DEF x, y
    <2>4. OpSound(x) /\ OpSound(y)
      BY <1>0, <2>1, <2>3 DEF OpSound
    <2>5. Ours(ms)
      BY <1>m
    <2> HIDE DEF ms
    <2> QED  BY <1>2, <1>m, <1>u, <2>1, <2>2, <2>3, <2>4, <2>5
  <1>19. CASE CancelSeen
    <2>1. CASE op.via = "sftp" /\ Goes(<<>>, [op EXCEPT !.pc = "abandoning"])
      BY <1>4, <1>m, <2>1
    <2> QED  BY <1>2, <1>19, <2>1 DEF CancelSeen
  <1>20. CASE TimesOut
    <2>1. CASE op.pc = "finish"
      <3>1. op.via = "sftp" /\ Goes(<<>>, Concluded)
        BY <1>0, <1>20, <2>1 DEF TimesOut, OpSound
      <3> QED  BY <1>3, <3>1
    <2> QED  BY <1>2, <1>20, <2>1 DEF TimesOut
  <1> QED  BY <1>5, <1>6, <1>7, <1>8, <1>9, <1>10, <1>11, <1>12, <1>13, <1>14, <1>15, <1>16, <1>17,
              <1>18, <1>19, <1>20

\* The request that starts the command goes out.
LEMMA ExecHonest ==
    ASSUME SshInv, HonestInv, Commanding, op.pc \in Beginning,
           Goes(<<M("exec", ch.id, op.via)>>, [op EXCEPT !.pc = "exec"]), ChShaped(ch'),
           ch'.id = ch.id, ch'.out = ch.out, ch'.exit = ch.exit, ch'.closeIn = ch.closeIn
    PROVE  HonestInv'
  <1> DEFINE m == M("exec", ch.id, op.via)
             ms == <<m>>
             x == [op EXCEPT !.pc = "exec"]
  <1>1. op' = x /\ srv' = srv /\ down' = down /\ Sends(ms) /\ cl' = [cl EXCEPT !.out = Moved(@, Len(ms))]
    BY DEF Goes
  <1>2. /\ OpShaped(x) /\ x.pc = "exec" /\ x.via = op.via /\ x.kind = op.kind
        /\ OpSound(op)
    BY OperationShapes DEF HonestInv, OpInv
  <1>3. m.k = "exec" /\ m.c = ch.id /\ m.v = op.via
    BY DEF M
  <1> HIDE DEF x, m
  <1>4. OpSound(x)
    BY <1>2 DEF OpSound
  <1>5. ms \in Seq({m}) /\ (\A j \in 1..Len(ms) : j = 1) /\ ms[1] = m
    OBVIOUS
  <1> HIDE DEF ms
  <1>6. cl'.next = cl.next
    <2>1. Shaped(cl)
      BY DEF SshInv, ClientShape, Shaped
    <2> QED  BY <1>1, <2>1 DEF Shaped
  <1>7. Joined(up, cl.out, ms, up')
    BY <1>1, <1>5, ClientSends
  <1>8. CommandInv'
    <2>1. AskInv /\ OnceInv /\ SpokenInv /\ TellInv
      BY DEF HonestInv, CommandInv
    <2>2. op.via = "none"
      BY DEF Commanding
    <2>3. AskInv' /\ OnceInv'
      <3>1. op'.pc = "exec" /\ ms[1].k = "exec" /\ ms[1].v = "none"
        BY <1>1, <1>2, <1>3, <1>5, <2>2
      <3> QED  BY <1>1, <1>5, <1>7, <2>1, <3>1, AskingStarted
    <2>4. SameView
      <3>1. Process' = Process
        BY <1>1 DEF Process
      <3> QED  BY <3>1 DEF SameView
    <2>5. Passes(down, down', ch.id)
      BY <1>1, PassesSame
    <2> QED  BY <2>1, <2>3, <2>4, <2>5, TellingKept DEF CommandInv
  <1>9. cl'.next \in Nat /\ cl'.next >= cl.next /\ ch'.id \in Nat /\ ch'.id < cl'.next
    BY <1>6 DEF HonestInv, FreshInv
  <1>10. \A j \in 1..Len(ms) : ms[j].c \in Nat /\ ms[j].c < cl'.next
    BY <1>3, <1>5, <1>9
  <1>11. OpInv' /\ OpShaped(op') /\ Shrinks(down, down') /\ \E T : ms \in Seq(T)
    BY <1>1, <1>2, <1>4, <1>5 DEF OpInv, Shrinks
  <1> QED  BY <1>1, <1>8, <1>9, <1>10, <1>11, ClientBase

LEMMA OpenedHonest == SshInv /\ HonestInv /\ Opened => HonestInv'
  <1> SUFFICES ASSUME SshInv, HonestInv, Opened PROVE HonestInv'
    OBVIOUS
  <1>0. OpShaped(op) /\ OpSound(op) /\ ChShaped(ch) /\ ch' = ch /\ op.pc = "opening"
    BY DEF HonestInv, RecordInv, OpInv, Opened, At
  <1> DEFINE k == IF op.kind = "pty" THEN "pty" ELSE IF op.via = "sftp" THEN "subsystem" ELSE "exec"
             x == [op EXCEPT !.pc = k]
             ms == <<M(k, ch.id, op.via)>>
  <1>1. Goes(ms, x)
    BY DEF Opened
  <1>2. OpShaped(x) /\ x.pc = k /\ x.via = op.via /\ x.kind = op.kind
    BY OperationShapes
  <1>3. k \in {"pty", "subsystem", "exec"} /\ (k = "subsystem" => op.via = "sftp")
    OBVIOUS
  <1>4. Ours(ms) /\ (k = "pty" => Mild(ms))
    BY OursOnes
  <1>5. CASE op.via = "none" /\ k = "exec"
    <2>1. Commanding /\ op.pc \in Beginning
      BY <1>0, <1>5 DEF Commanding, Beginning
    <2>2. Goes(<<M("exec", ch.id, op.via)>>, [op EXCEPT !.pc = "exec"])
      BY <1>1, <1>5
    <2> QED  BY <1>0, <2>1, <2>2, ExecHonest
  <1> HIDE DEF k, x, ms
  <1>6. OpSound(x)
    BY <1>0, <1>2, <1>3 DEF OpSound
  <1>7. CASE op.via # "none"
    BY <1>0, <1>1, <1>2, <1>4, <1>6, <1>7, GoesStep
  <1>8. CASE op.via = "none" /\ k = "pty"
    <2>1. Commanding /\ op.pc \in Beginning
      BY <1>0, <1>8 DEF Commanding, Beginning
    <2> QED  BY <1>0, <1>1, <1>2, <1>4, <1>6, <1>8, <2>1, GoesStep
  <1> QED  BY <1>3, <1>5, <1>7, <1>8

LEMMA AnsweredHonest == SshInv /\ HonestInv /\ Answered => HonestInv'
  <1> SUFFICES ASSUME SshInv, HonestInv, Answered PROVE HonestInv'
    OBVIOUS
  <1>0. OpShaped(op) /\ OpSound(op) /\ op.pc \in {"pty", "exec", "subsystem"}
    BY DEF HonestInv, RecordInv, OpInv, Answered, At
  <1>1. /\ ChShaped(ch') /\ ch'.id = ch.id /\ ch'.out = ch.out /\ ch'.exit = ch.exit
        /\ ch'.closeIn = ch.closeIn
    BY ChannelShapes DEF Answered
  <1>2. Mild(<<>>) /\ Ours(<<>>) /\ Ours(<<M("exec", ch.id, op.via)>>)
    BY OursOnes DEF Mild
  <1>3. CASE Goes(<<>>, Lost)
    BY <1>1, <1>2, <1>3, OperationShapes, GoesStep
  <1>4. ASSUME NEW ms, Ours(ms), NEW p, Goes(ms, [op EXCEPT !.pc = p]), OpSound([op EXCEPT !.pc = p]),
               op.via # "none" \/ (Mild(ms) /\ p \notin Beginning)
        PROVE  HonestInv'
    <2> DEFINE x == [op EXCEPT !.pc = p]
    <2>1. OpShaped(x) /\ x.pc = p /\ x.via = op.via
      BY OperationShapes
    <2>2. Goes(ms, x) /\ OpSound(x)
      BY <1>4
    <2> HIDE DEF x
    <2>3. op.via = "none" => Commanding
      BY <1>0 DEF Commanding
    <2> QED  BY <1>1, <1>4, <2>1, <2>2, <2>3, GoesStep
  <1>s. ASSUME NEW p PROVE LET x == [op EXCEPT !.pc = p] IN x.pc = p /\ x.via = op.via /\ x.kind = op.kind
    BY OperationShapes
  <1>5. CASE op.pc = "pty" /\ Goes(<<M("exec", ch.id, op.via)>>, [op EXCEPT !.pc = "exec"])
    <2>1. CASE op.via = "none"
      BY <1>1, <1>5, <2>1, ExecHonest DEF Commanding, Beginning
    <2>2. CASE op.via # "none"
      <3>1. OpSound([op EXCEPT !.pc = "exec"])
        BY <1>0, <1>s DEF OpSound
      <3> QED  BY <1>2, <1>4, <1>5, <2>2, <3>1
    <2> QED  BY <2>1, <2>2
  <1>6. CASE op.pc = "subsystem" /\ Goes(<<>>, [op EXCEPT !.pc = "init"])
    <2>1. OpSound([op EXCEPT !.pc = "init"]) /\ "init" \notin Beginning
      BY <1>0, <1>6, <1>s DEF OpSound, Beginning
    <2> QED  BY <1>2, <1>4, <1>6, <2>1
  <1> DEFINE p == IF op.via = "cat" THEN "writing" ELSE IF op.kind = "pty" THEN "marker" ELSE "input"
  <1>7. CASE op.pc = "exec" /\ Goes(<<>>, [op EXCEPT !.pc = p])
    <2>1. p \in {"writing", "marker", "input"} /\ (p = "writing" => op.via = "cat")
      OBVIOUS
    <2> HIDE DEF p
    <2>2. OpSound([op EXCEPT !.pc = p]) /\ p \notin Beginning
      BY <1>0, <1>s, <2>1 DEF OpSound, Beginning
    <2> QED  BY <1>2, <1>4, <1>7, <2>2
  <1>8. \/ Goes(<<>>, Lost)
        \/ op.pc = "pty" /\ Goes(<<M("exec", ch.id, op.via)>>, [op EXCEPT !.pc = "exec"])
        \/ op.pc = "subsystem" /\ Goes(<<>>, [op EXCEPT !.pc = "init"])
        \/ op.pc = "exec" /\ Goes(<<>>, [op EXCEPT !.pc = p])
    BY <1>0 DEF Answered
  <1> HIDE DEF p
  <1> QED  BY <1>3, <1>5, <1>6, <1>7, <1>8

LEMMA CancelHonest == SshInv /\ HonestInv /\ Cancel => HonestInv'
  <1> SUFFICES ASSUME SshInv, HonestInv, Cancel PROVE HonestInv'
    OBVIOUS
  <1>1. /\ cl' = cl /\ ch' = ch /\ up' = up /\ down' = down /\ srv' = srv
        /\ op' = [op EXCEPT !.cancel = TRUE]
    BY DEF Cancel, Quiet
  <1>2. OpShaped(op) /\ OpSound(op) /\ ChShaped(ch)
    BY DEF HonestInv, RecordInv, OpInv
  <1>3. OpShaped(op') /\ op'.pc = op.pc /\ op'.via = op.via /\ op'.kind = op.kind
    BY <1>1, <1>2 DEF OpShaped
  <1>4. OpInv' /\ (Commanding' => Commanding) /\ Shrinks(down, down')
    BY <1>1, <1>2, <1>3 DEF OpInv, OpSound, Commanding, Shrinks
  <1>5. Sends(<<>>) /\ (\E T : <<>> \in Seq(T)) /\ \A j \in 1..Len(<<>>) : FALSE
    BY <1>1, NothingSent, AloofOnes DEF Sends, Aloof
  <1> QED  BY <1>1, <1>2, <1>3, <1>4, <1>5, ClientStep

\* A channel is opened, with a number that nothing on its way bears.
LEMMA OpensHonest ==
    ASSUME SshInv, HonestInv, Sends(<<M("open", cl.next, 0)>>), down' = down, srv' = srv,
           cl' = [cl EXCEPT !.out = Moved(@, 1), !.next = @ + 1], ch' = Opens,
           OpShaped(op'), OpInv'
    PROVE  HonestInv'
  <1> DEFINE m == M("open", cl.next, 0)
             ms == <<m>>
  <1>1. m.k = "open" /\ m.c = cl.next
    BY DEF M
  <1>2. Sends(ms)
    OBVIOUS
  <1> HIDE DEF m
  <1>3. ms \in Seq({m}) /\ (\A j \in 1..Len(ms) : j = 1) /\ ms[1] = m
    OBVIOUS
  <1> HIDE DEF ms
  <1>4. /\ ChShaped(ch') /\ ch'.id = cl.next /\ ch'.out = <<>> /\ ~ch'.closeIn
    BY DEF Opens, NoChannel, ChShaped
  <1>5. cl.next \in Nat /\ cl'.next = cl.next + 1
    <2>1. Shaped(cl)
      BY DEF SshInv, ClientShape, Shaped
    <2>2. cl.next \in Nat
      BY DEF HonestInv, FreshInv
    <2> QED  BY <2>1, <2>2 DEF Shaped
  <1>6. /\ \A i \in 1..Len(up) : up[i].m.c # cl.next
        /\ \A i \in 1..Len(down) : down[i].m.c # cl.next
        /\ \A i \in 1..Len(srv.held) : srv.held[i].c # cl.next
        /\ cl.next \in Ids => srv.chan[cl.next] = NoProcess
    BY <1>5 DEF HonestInv, FreshInv, Given
  <1>7. Joined(up, cl.out, ms, up')
    BY <1>2, <1>3, ClientSends
  <1>8. \A i \in 1..Len(up') :
                \/ i \in 1..Len(up) /\ up'[i] = up[i]
                \/ \E j \in 1..Len(ms) : i = Len(up) + j /\ up'[i].m = ms[j]
    BY <1>7, PutPlaces
  <1>9. \A i \in 1..Len(up') : up'[i].m.c = cl.next => up'[i].m.k = "open"
    BY <1>1, <1>3, <1>6, <1>8
  <1>10. Before' /\ (ch'.id \in Ids => Process' = NoProcess)
    BY <1>4, <1>6 DEF Before, Process, NoProcess
  <1>11. AskInv'
    BY <1>4, <1>6, <1>9, <1>10 DEF AskInv, Calm
  <1>12. OnceInv'
    BY <1>4, <1>6, <1>9 DEF OnceInv, Clash, Mine
  <1>13. SpokenInv'
    BY <1>4, <1>6 DEF SpokenInv, Misplaced, Mine
  <1>14. Told(0)'
    <2>1. Coming(down', ch'.id, 0)
      BY <1>4, <1>6 DEF Coming, Output
    <2>2. Received(0)'
      BY <1>4 DEF Received
    <2> QED  BY <2>1, <2>2 DEF Told
  <1>15. TellInv'
    <2>1. NoProcess.kind = "none" /\ NoProcess.closed = FALSE /\ NoProcess.said = 0
      BY DEF NoProcess
    <2>2. ~Over'
      BY <1>10, <2>1 DEF Over
    <2>3. \A i \in 1..Len(down') : Own(down[i].m)'
      BY <1>4, <1>6 DEF Own
    <2> QED  BY <1>4, <1>10, <1>14, <2>1, <2>2, <2>3 DEF TellInv
  <1>16. CommandInv'
    BY <1>11, <1>12, <1>13, <1>15 DEF CommandInv
  <1>17. \A j \in 1..Len(ms) : ms[j].c \in Nat /\ ms[j].c < cl'.next
    BY <1>1, <1>3, <1>5
  <1>18. /\ cl'.next \in Nat /\ cl'.next >= cl.next /\ ch'.id \in Nat /\ ch'.id < cl'.next
         /\ Shrinks(down, down') /\ \E T : ms \in Seq(T)
    BY <1>3, <1>4, <1>5 DEF Shrinks
  <1> QED  BY <1>2, <1>4, <1>16, <1>17, <1>18, ClientBase

LEMMA BeginHonest ==
    ASSUME SshInv, HonestInv, (\E k \in Kinds : Start(k)) \/ Fallback
    PROVE  HonestInv'
  <1>0. OpShaped(op) /\ OpSound(op) /\ ChShaped(ch)
    BY DEF HonestInv, RecordInv, OpInv
  <1>1. ASSUME NEW k \in Kinds, Start(k) PROVE HonestInv'
    <2> DEFINE v == IF k = "upload" THEN "sftp" ELSE "none"
               x == [NoOp EXCEPT !.n = op.n + 1, !.kind = k, !.pc = "opening", !.via = v]
    <2>1. op' = x
      BY <1>1 DEF Start
    <2>2. k = "upload" <=> v # "none"
      OBVIOUS
    <2>3. OpShaped(NoOp)
      BY DEF NoOp, OpShaped
    <2> HIDE DEF v
    <2>a. x = [NoOp EXCEPT !.n = op.n + 1, !.kind = k, !.pc = "opening", !.via = v]
      OBVIOUS
    <2> HIDE DEF x
    <2>4. OpShaped(x) /\ x.pc = "opening" /\ x.kind = k /\ x.via = v
      BY <2>3, <2>a DEF OpShaped
    <2>5. OpSound(x)
      BY <2>2, <2>4 DEF OpSound
    <2>6. OpShaped(op') /\ OpInv'
      BY <2>1, <2>4, <2>5 DEF OpInv
    <2> QED  BY <1>1, <2>6, OpensHonest DEF Start
  <1>2. CASE Fallback
    <2>1. op.via = "sftp"
      BY <1>0, <1>2 DEF Fallback, At, OpSound
    <2>2. CASE op.cancel
      <3>1. Goes(<<>>, Done("failed")) /\ ch' = ch
        BY <1>2, <2>2 DEF Fallback
      <3>2. Ours(<<>>)
        BY OursOnes DEF Mild
      <3> QED  BY <1>0, <3>1, <3>2, OperationShapes, GoesStep
    <2>3. CASE ~op.cancel
      <3> DEFINE x == [op EXCEPT !.pc = "opening", !.via = "cat", !.src = Rewound,
                                 !.next = 0, !.pend = {}, !.flying = 0]
      <3>1. op' = x
        BY <1>2, <2>3 DEF Fallback
      <3>a. x = [op EXCEPT !.pc = "opening", !.via = "cat", !.src = Rewound,
                           !.next = 0, !.pend = {}, !.flying = 0]
        OBVIOUS
      <3> HIDE DEF x
      <3>2. OpShaped(x) /\ x.pc = "opening" /\ x.via = "cat" /\ x.kind = op.kind
        BY <1>0, <3>a DEF OpShaped
      <3>3. OpSound(x)
        BY <1>0, <2>1, <3>2 DEF OpSound
      <3>4. OpShaped(op') /\ OpInv'
        BY <3>1, <3>2, <3>3 DEF OpInv
      <3> QED  BY <1>2, <2>3, <3>4, OpensHonest DEF Fallback
    <2> QED  BY <2>2, <2>3
  <1> QED  BY <1>1, <1>2

\* What a packet of a channel does to the client's, and what it sends back.
LEMMA DispatchShapes ==
    ASSUME NEW c, ChShaped(c), NEW m, m.k \in Channelled
    PROVE  LET x == Dispatched(c, m) IN
           /\ ChShaped(x) /\ x.id = c.id
           /\ x.out = IF m.c = c.id /\ m.k = "data" THEN Append(c.out, m.v) ELSE c.out
           /\ x.exit = IF m.c = c.id /\ m.k = "exit" THEN m.v ELSE c.exit
           /\ x.closeIn = IF m.c = c.id /\ m.k = "close" THEN TRUE ELSE c.closeIn
  <1> DEFINE x == Dispatched(c, m)
  <1>1. CASE m.c # c.id
    <2>1. x = c
      BY <1>1 DEF Dispatched
    <2> HIDE DEF x
    <2> QED  BY <1>1, <2>1 DEF x
  <1>2. CASE m.c = c.id
    <2>0. x = Dispatched_Any(c, m)
      BY <1>2 DEF Dispatched
    <2> DEFINE credit == IF c.consumed + 1 >= Half THEN 0 ELSE c.consumed + 1
    <2>1. \/ m.k = "conf" /\ x = [c EXCEPT !.opened = TRUE, !.window = m.v]
          \/ m.k = "refused" /\ x = [c EXCEPT !.failed = TRUE]
          \/ m.k = "adjust" /\ x = [c EXCEPT !.window = c.window + m.v]
          \/ m.k = "data" /\ x = [c EXCEPT !.out = Append(c.out, m.v), !.consumed = credit]
          \/ m.k = "eof" /\ x = [c EXCEPT !.eofIn = TRUE]
          \/ m.k = "close" /\ x = [c EXCEPT !.closeIn = TRUE, !.closeOut = TRUE]
          \/ m.k = "exit" /\ x = [c EXCEPT !.exit = m.v]
          \/ m.k \in {"ok", "no"} /\ x = [c EXCEPT !.reply = m.k]
      BY <2>0 DEF Dispatched_Any, Channelled
    <2> HIDE DEF x, credit
    <2>2. /\ ChShaped(x) /\ x.id = c.id
          /\ x.out = IF m.k = "data" THEN Append(c.out, m.v) ELSE c.out
          /\ x.exit = IF m.k = "exit" THEN m.v ELSE c.exit
          /\ x.closeIn = IF m.k = "close" THEN TRUE ELSE c.closeIn
      <3>1. CASE m.k = "conf" /\ x = [c EXCEPT !.opened = TRUE, !.window = m.v]
        BY <3>1 DEF ChShaped
      <3>2. CASE m.k = "refused" /\ x = [c EXCEPT !.failed = TRUE]
        BY <3>2 DEF ChShaped
      <3>3. CASE m.k = "adjust" /\ x = [c EXCEPT !.window = c.window + m.v]
        BY <3>3 DEF ChShaped
      <3>4. CASE m.k = "data" /\ x = [c EXCEPT !.out = Append(c.out, m.v), !.consumed = credit]
        BY <3>4 DEF ChShaped
      <3>5. CASE m.k = "eof" /\ x = [c EXCEPT !.eofIn = TRUE]
        BY <3>5 DEF ChShaped
      <3>6. CASE m.k = "close" /\ x = [c EXCEPT !.closeIn = TRUE, !.closeOut = TRUE]
        BY <3>6 DEF ChShaped
      <3>7. CASE m.k = "exit" /\ x = [c EXCEPT !.exit = m.v]
        BY <3>7 DEF ChShaped
      <3>8. CASE m.k \in {"ok", "no"} /\ x = [c EXCEPT !.reply = m.k]
        BY <3>8 DEF ChShaped
      <3> QED  BY <2>1, <3>1, <3>2, <3>3, <3>4, <3>5, <3>6, <3>7, <3>8
    <2> QED  BY <1>2, <2>2 DEF x
  <1> QED  BY <1>1, <1>2

LEMMA ReturnedOnes ==
    ASSUME NEW m, NEW ms, ms = Returned(ch, m)
    PROVE  /\ Ours(ms)
           /\ \A j \in 1..Len(ms) :
                ms[j].k = "adjust" \/ (ms[j].k = "close" /\ m.c = ch.id /\ m.k = "close")
  <1>1. CASE ms = <<>>
    <2>1. <<>> \in Seq({}) /\ \A i \in 1..Len(<<>>) : FALSE
      OBVIOUS
    <2> QED  BY <1>1, <2>1 DEF Ours
  <1>2. ASSUME NEW n, ms = <<n>>, n.c = ch.id,
               n.k = "adjust" \/ (n.k = "close" /\ m.c = ch.id /\ m.k = "close")
        PROVE  /\ Ours(ms)
               /\ \A j \in 1..Len(ms) :
                    ms[j].k = "adjust" \/ (ms[j].k = "close" /\ m.c = ch.id /\ m.k = "close")
    <2>1. <<n>> \in Seq({n}) /\ \A i \in 1..Len(<<n>>) : <<n>>[i] = n
      OBVIOUS
    <2> QED  BY <1>2, <2>1 DEF Ours
  <1>3. \A v : M("adjust", ch.id, v).c = ch.id /\ M("adjust", ch.id, v).k = "adjust"
    BY DEF M
  <1>4. M("close", ch.id, 0).c = ch.id /\ M("close", ch.id, 0).k = "close"
    BY DEF M
  <1>5. \/ ms = <<>> \/ ms = <<M("adjust", ch.id, ch.consumed + 1)>>
        \/ ms = <<M("close", ch.id, 0)>> /\ m.c = ch.id /\ m.k = "close"
    BY DEF Returned
  <1> QED  BY <1>1, <1>2, <1>3, <1>4, <1>5

LEMMA SecondUnit ==
    ASSUME NEW S, NEW s \in Seq(S), NEW c \in S,
           \A n \in Nat : Len(s) = n => n = 1, s[1] = c
    PROVE  Append(s, c) = <<c, c>>
  <1> DEFINE a == Append(s, c)
  <1>2. a \in Seq(S) /\ Len(a) = Len(s) + 1
    OBVIOUS
  <1>5. a[Len(s) + 1] = c
    OBVIOUS
  <1>6. \A i \in 1..Len(s) : a[i] = s[i]
    OBVIOUS
  <1> HIDE DEF a
  <1>9. Len(s) \in Nat
    OBVIOUS
  <1>8. Len(s) = 1
    BY <1>9
  <1>1. Len(a) = 2 /\ a[1] = c /\ a[2] = c
    BY <1>2, <1>5, <1>6, <1>8
  <1>3. <<c, c>> \in Seq(S) /\ Len(<<c, c>>) = 2 /\ <<c, c>>[1] = c /\ <<c, c>>[2] = c
    OBVIOUS
  <1>4. \A i \in 1..2 : i = 1 \/ i = 2
    OBVIOUS
  <1>7. a = <<c, c>>
    BY <1>1, <1>2, <1>3, <1>4, SeqEqual
  <1> QED  BY <1>7 DEF a

LEMMA AppendUnits ==
    ASSUME NEW c PROVE Append(<<>>, c) = <<c>> /\ Append(<<c>>, c) = <<c, c>>
  <1>1. <<c>> \in Seq({c}) /\ Len(<<c>>) = 1 /\ <<c>>[1] = c /\ c \in {c}
    OBVIOUS
  <1>2. Append(<<>>, c) = <<c>>
    OBVIOUS
  <1>3. Append(<<c>>, c) = <<c, c>>
    BY <1>1, SecondUnit
  <1> QED  BY <1>2, <1>3

\* What the command sent is received.
LEMMA TellingRead ==
    ASSUME SpokenInv, TellInv, \E S : down \in Seq(S), down # <<>>, down' = Tail(down), srv' = srv,
           ch'.id = ch.id, Telling(Msg, ch.id),
           ch'.out = IF Msg.k = "data" THEN Append(ch.out, Msg.v) ELSE ch.out,
           ch'.exit = IF Msg.k = "exit" THEN Msg.v ELSE ch.exit,
           ch'.closeIn = IF Msg.k = "close" THEN TRUE ELSE ch.closeIn
    PROVE  SpokenInv' /\ TellInv'
  <1> DEFINE t == down'
             c == ch.id
  <1>0. /\ Len(down) \in Nat /\ 1 \in 1..Len(down) /\ Len(t) \in Nat /\ Head(down) = down[1]
        /\ \A i \in 1..Len(t) : i + 1 \in 1..Len(down) /\ i + 1 # 1 /\ t[i] = down[i + 1]
        /\ \A i \in 1..Len(down) : i # 1 => i - 1 \in 1..Len(t) /\ t[i - 1] = down[i]
    BY TailPlaces
  <1>1. \A i \in 1..Len(t) : 1 < i + 1
    BY <1>0
  <1>2. Msg = down[1].m /\ Msg.c = c /\ Msg.k \in {"data", "exit", "close"} /\ Own(Msg)
    BY <1>0 DEF Msg, Telling, TellInv
  <1>3. Process' = Process /\ (Over' <=> Over)
    BY DEF Process, Over
  <1>4. /\ Output(down, 1, c) <=> Msg.k = "data"
        /\ \A n : Coming(down, c, n) =>
             /\ ~Output(down, 1, c) => Coming(t, c, n)
             /\ Output(down, 1, c) => n \in {1, 2} /\ Coming(t, c, n - 1)
    <2>1. Output(down, 1, c) <=> Msg.k = "data"
      BY <1>2 DEF Output
    <2>2. ASSUME NEW n, Coming(down, c, n)
          PROVE  /\ ~Output(down, 1, c) => Coming(t, c, n)
                 /\ Output(down, 1, c) => n \in {1, 2} /\ Coming(t, c, n - 1)
      BY <2>2, ComingTail
    <2> QED  BY <2>1, <2>2
  <1>5. SpokenInv'
    <2> SUFFICES ASSUME NEW i \in 1..Len(t), NEW j \in 1..Len(t), i < j,
                        Misplaced(down[i].m, down[j].m)'
                 PROVE  FALSE
      BY DEF SpokenInv
    <2>1. i + 1 < j + 1
      BY <1>0
    <2>2. Misplaced(down[i + 1].m, down[j + 1].m)
      BY <1>0 DEF Misplaced, Mine
    <2> QED  BY <1>0, <2>1, <2>2 DEF SpokenInv
  <1>6. \A i \in 1..Len(t) : ~Misplaced(Msg, t[i].m)
    BY <1>0, <1>1, <1>2 DEF SpokenInv
  <1>7. ASSUME NEW i \in 1..Len(t) PROVE Own(down[i].m)'
    <2>1. Own(t[i].m)
      BY <1>0 DEF TellInv
    <2>2. Msg.k = "close" => ~Mine(t[i].m, {"exit"})
      BY <1>2, <1>6 DEF Misplaced, Mine
    <2> QED  BY <1>3, <2>1, <2>2 DEF Own, Mine
  <1>8. ch'.closeIn => Over'
    BY <1>2, <1>3 DEF TellInv, Own
  <1>9. ASSUME NEW n \in 0..2, Told(n) PROVE Told(n)'
    <2>1. PICK a \in 0..2, b \in 0..2 : a + b = n /\ Received(a) /\ Coming(down, c, b)
      BY <1>9 DEF Told
    <2>2. CASE Msg.k = "data"
      <3>1. b \in {1, 2} /\ Coming(t, c, b - 1)
        BY <1>4, <2>1, <2>2
      <3>2. a \in {0, 1} /\ a + 1 \in 0..2 /\ b - 1 \in 0..2 /\ (a + 1) + (b - 1) = n
        BY <2>1, <3>1
      <3>3. Received(a + 1)'
        <4>1. ch'.out = Append(ch.out, c)
          BY <1>2, <2>2 DEF Own
        <4>2. Append(<<>>, c) = <<c>> /\ Append(<<c>>, c) = <<c, c>>
          BY AppendUnits
        <4>3. CASE a = 0
          <5>1. ch.out = <<>> /\ a + 1 = 1
            BY <2>1, <4>3 DEF Received
          <5>2. ch'.out = <<ch'.id>>
            BY <4>1, <4>2, <5>1
          <5> QED  BY <5>1, <5>2 DEF Received
        <4>4. CASE a = 1
          <5>1. ch.out = <<c>> /\ a + 1 = 2
            BY <2>1, <4>4 DEF Received
          <5>2. ch'.out = <<ch'.id, ch'.id>>
            BY <4>1, <4>2, <5>1
          <5> QED  BY <5>1, <5>2 DEF Received
        <4> QED  BY <3>2, <4>3, <4>4
      <3> QED  BY <3>1, <3>2, <3>3 DEF Told
    <2>3. CASE Msg.k # "data"
      <3>1. Coming(t, c, b) /\ ch'.out = ch.out
        BY <1>4, <2>1, <2>3
      <3>2. Received(a)'
        BY <2>1, <3>1 DEF Received
      <3> QED  BY <2>1, <3>1, <3>2 DEF Told
    <2> QED  BY <2>2, <2>3
  <1>10. Over => Exiting' \/ (ch'.exit = Process.code /\ Coming(t, c, 0))
    <2> SUFFICES ASSUME Over PROVE Exiting' \/ (ch'.exit = Process.code /\ Coming(t, c, 0))
      OBVIOUS
    <2>0. ASSUME Exiting, Msg.k # "exit" PROVE Exiting'
      <3>1. PICK i \in 1..Len(down) : Mine(down[i].m, {"exit"})
        BY <2>0 DEF Exiting
      <3>2. i # 1
        BY <1>2, <2>0, <3>1 DEF Mine
      <3>3. i - 1 \in 1..Len(t) /\ t[i - 1] = down[i]
        BY <1>0, <3>2
      <3>4. Mine(down[i - 1].m, {"exit"})'
        BY <3>1, <3>3 DEF Mine
      <3> QED  BY <3>3, <3>4 DEF Exiting
    <2>1. Exiting \/ (ch.exit = Process.code /\ Coming(down, c, 0))
      BY DEF TellInv
    <2>2. CASE Msg.k = "data"
      BY <1>4, <2>0, <2>1, <2>2
    <2>3. CASE Msg.k = "exit"
      <3>1. ch'.exit = Process.code
        BY <1>2, <2>3 DEF Own
      <3>2. \A i \in 1..Len(t) : ~Output(t, i, c)
        BY <1>2, <1>6, <2>3 DEF Misplaced, Mine, Output
      <3> QED  BY <3>1, <3>2 DEF Coming
    <2>4. CASE Msg.k = "close"
      <3>1. ch'.exit = ch.exit /\ Msg.k # "data" /\ Msg.k # "exit"
        BY <2>4
      <3> QED  BY <1>4, <2>0, <2>1, <3>1
    <2> QED  BY <1>2, <2>2, <2>3, <2>4
  <1>11. TellInv'
    <2>1. 2 \in 0..2
      OBVIOUS
    <2>2. Over' => Told(2)' /\ (Exiting' \/ (ch'.exit = Process'.code /\ Coming(down', ch'.id, 0)))
      BY <1>3, <1>9, <1>10, <2>1 DEF TellInv
    <2>3. c \in Ids =>
         /\ Process.kind \in {"none", "open", "cmd", "dead"}
         /\ Process.closed <=> Process.kind = "dead"
         /\ Process.kind \in {"none", "open"} => Process.said = 0
         /\ Process.kind \in {"none", "open", "cmd"} => Process.said \in 0..2 /\ Told(Process.said)
      BY DEF TellInv
    <2>4. Process.said \in 0..2 /\ Told(Process.said) => Told(Process.said)'
      BY <1>3, <1>9
    <2>5. ch'.id \in Ids =>
         /\ Process'.kind \in {"none", "open", "cmd", "dead"}
         /\ Process'.closed <=> Process'.kind = "dead"
         /\ Process'.kind \in {"none", "open"} => Process'.said = 0
         /\ Process'.kind \in {"none", "open", "cmd"} => Process'.said \in 0..2 /\ Told(Process.said)'
      BY <1>3, <2>3, <2>4
    <2> QED  BY <1>7, <1>8, <2>2, <2>5 DEF TellInv
  <1> QED  BY <1>5, <1>11

LEMMA PollHonest == SshInv /\ HonestInv /\ Poll => HonestInv'
  <1> SUFFICES ASSUME SshInv, HonestInv, Poll PROVE HonestInv'
    OBVIOUS
  <1> DEFINE ms == Returned(ch, Msg)
  <1>1. /\ down # <<>> /\ Msg.k \in Channelled /\ down' = Tail(down) /\ Sends(ms)
        /\ cl' = Turn(Len(ms)) /\ ch' = Dispatched(ch, Msg) /\ op' = op /\ srv' = srv
    BY DEF Poll, Reads, Packet, Taken, Quiet
  <1>2. /\ OpShaped(op) /\ OpInv /\ ChShaped(ch) /\ ch.id \in Nat /\ ch.id < cl.next /\ cl.next \in Nat
    BY DEF HonestInv, RecordInv, FreshInv
  <1>3. /\ ChShaped(ch') /\ ch'.id = ch.id
        /\ ch'.out = IF Msg.c = ch.id /\ Msg.k = "data" THEN Append(ch.out, Msg.v) ELSE ch.out
        /\ ch'.exit = IF Msg.c = ch.id /\ Msg.k = "exit" THEN Msg.v ELSE ch.exit
        /\ ch'.closeIn = IF Msg.c = ch.id /\ Msg.k = "close" THEN TRUE ELSE ch.closeIn
    BY <1>1, <1>2, DispatchShapes
  <1>4. /\ Ours(ms)
        /\ \A j \in 1..Len(ms) :
             ms[j].k = "adjust" \/ (ms[j].k = "close" /\ Msg.c = ch.id /\ Msg.k = "close")
    BY ReturnedOnes
  <1>5. cl'.next = cl.next
    BY <1>1, TurnNumber
  <1> HIDE DEF ms
  <1>6. Shrinks(down, down') /\ \E S : down \in Seq(S)
    BY <1>1 DEF Shrinks, SshInv, SshStreams, Chain
  <1>7. \E T : ms \in Seq(T)
    BY <1>4 DEF Ours
  <1>8. Joined(up, cl.out, ms, up')
    BY <1>1, <1>7, ClientSends
  <1>9. CommandInv'
    <2> SUFFICES ASSUME Commanding' PROVE AskInv' /\ OnceInv' /\ SpokenInv' /\ TellInv'
      BY DEF CommandInv
    <2>1. AskInv /\ OnceInv /\ SpokenInv /\ TellInv
      BY <1>1 DEF HonestInv, CommandInv, Commanding
    <2>2. AskInv' /\ OnceInv'
      <3>1. ch.closeIn => ch'.closeIn
        BY <1>3
      <3>2. \A j \in 1..Len(ms) : /\ ~Mine(ms[j], {"open", "exec", "subsystem"})
                                  /\ Mine(ms[j], {"close"}) => ch'.closeIn
        BY <1>3, <1>4 DEF Mine
      <3>3. op'.pc \in Beginning => op.pc \in Beginning
        BY <1>1
      <3> QED  BY <1>1, <1>3, <1>8, <2>1, <3>1, <3>2, <3>3, AskingSent
    <2>3. CASE Telling(Msg, ch.id)
      <3>1. /\ ch'.out = IF Msg.k = "data" THEN Append(ch.out, Msg.v) ELSE ch.out
            /\ ch'.exit = IF Msg.k = "exit" THEN Msg.v ELSE ch.exit
            /\ ch'.closeIn = IF Msg.k = "close" THEN TRUE ELSE ch.closeIn
        BY <1>3, <2>3 DEF Telling
      <3> QED  BY <1>1, <1>3, <1>6, <2>1, <2>2, <2>3, <3>1, TellingRead
    <2>4. CASE ~Telling(Msg, ch.id)
      <3>1. Process' = Process
        BY <1>1, <1>3 DEF Process
      <3>2. SameView
        BY <1>3, <2>4, <3>1 DEF SameView, Telling
      <3>3. Passes(down, down', ch.id)
        BY <1>1, <1>6, <2>4, PassesTail DEF Msg
      <3> QED  BY <2>1, <2>2, <3>2, <3>3, TellingKept
    <2> QED  BY <2>3, <2>4
  <1>10. /\ OpShaped(op') /\ OpInv' /\ cl'.next \in Nat /\ cl'.next >= cl.next
         /\ ch'.id \in Nat /\ ch'.id < cl'.next
    BY <1>1, <1>2, <1>3, <1>5 DEF OpInv
  <1>11. \A j \in 1..Len(ms) : ms[j].c \in Nat /\ ms[j].c < cl'.next
    BY <1>2, <1>4, <1>5 DEF Ours
  <1> QED  BY <1>1, <1>3, <1>6, <1>7, <1>9, <1>10, <1>11, ClientBase
--------------------------------------------------------------------------------
(* The steps of the server. *)

LEMMA ServerSays ==
    ASSUME SshInv, NEW ms, \E T : ms \in Seq(T), Says(ms)
    PROVE  Joined(down, srv.out, ms, down')
  <1>1. PICK S, T : down \in Seq(S) /\ ms \in Seq(T)
    BY DEF SshInv, SshStreams, Chain
  <1>2. srv.out \in Dirs
    BY DEF SshInv, ServerShape
  <1> QED  BY <1>1, <1>2, PutElements DEF Says

\* The server takes a request or says something: what is left to show is the
\* invariant of the client's command.
LEMMA ServerBase ==
    ASSUME HonestInv, cl' = cl, ch' = ch, op' = op, Shrinks(up, up'),
           NEW d, NEW ms, Joined(down, d, ms, down'), \A j \in 1..Len(ms) : Given(ms[j]),
           \E T : srv'.held \in Seq(T), \A i \in 1..Len(srv'.held) : Given(srv'.held[i]),
           srv'.chan = [c \in Ids |-> srv'.chan[c]],
           \A c \in Ids : ProcessShaped(srv'.chan[c]),
           \A c \in Ids : c >= cl.next => srv'.chan[c] = NoProcess,
           CommandInv'
    PROVE  HonestInv'
  <1>1. \A i \in 1..Len(down') :
                \/ i \in 1..Len(down) /\ down'[i] = down[i]
                \/ \E j \in 1..Len(ms) : i = Len(down) + j /\ down'[i].m = ms[j]
    BY PutPlaces
  <1>2. Within(up', up)
    BY ShrunkPlaces
  <1>3. \A i \in 1..Len(up') : Given(up'[i].m)
    BY <1>2 DEF HonestInv, FreshInv, Within
  <1>4. \A i \in 1..Len(down') : Given(down'[i].m)
    BY <1>1 DEF HonestInv, FreshInv
  <1>5. FreshInv'
    BY <1>3, <1>4 DEF HonestInv, FreshInv, Given
  <1>6. RecordInv'
    <2>1. OpShaped(op)' /\ ChShaped(ch)'
      BY DEF HonestInv, RecordInv, OpShaped, ChShaped
    <2>2. \A c \in Ids : ProcessShaped(srv.chan[c])'
      BY DEF ProcessShaped
    <2> QED  BY <2>1, <2>2 DEF RecordInv
  <1>7. OpInv'
    BY DEF HonestInv, OpInv, OpSound
  <1> QED  BY <1>5, <1>6, <1>7 DEF HonestInv

\* A message of the transport: the channels do not notice.
LEMMA TransportHonest ==
    ASSUME SshInv, HonestInv, cl' = cl, ch' = ch, op' = op, Shrinks(up, up'),
           Shrinks(srv.held, srv'.held), srv'.chan = srv.chan, NEW ms, Aloof(ms), Says(ms),
           \A j \in 1..Len(ms) : ms[j].k \notin {"data", "exit"}
    PROVE  HonestInv'
  <1>1. Joined(down, srv.out, ms, down')
    BY ServerSays DEF Aloof
  <1>2. \A j \in 1..Len(ms) : Given(ms[j]) /\ ~Telling(ms[j], ch.id)
    BY DEF Aloof, Given, Telling, HonestInv, FreshInv
  <1>3. CommandInv'
    <2> SUFFICES ASSUME Commanding' PROVE AskInv' /\ OnceInv' /\ SpokenInv' /\ TellInv'
      BY DEF CommandInv
    <2>1. AskInv /\ OnceInv /\ SpokenInv /\ TellInv
      BY DEF HonestInv, CommandInv, Commanding
    <2>2. Process' = Process
      BY DEF Process
    <2>3. AskInv' /\ OnceInv'
      <3>1. Before => Before'
        BY <2>2 DEF Before
      <3> QED  BY <2>1, <3>1, AskingTaken
    <2>4. SameView
      BY <2>2 DEF SameView
    <2>5. Passes(down, down', ch.id)
      BY <1>1, <1>2, PassesPut
    <2> QED  BY <2>1, <2>3, <2>4, <2>5, TellingKept
  <1>4. /\ srv'.chan = [c \in Ids |-> srv'.chan[c]]
        /\ \A c \in Ids : ProcessShaped(srv'.chan[c])
        /\ \A c \in Ids : c >= cl.next => srv'.chan[c] = NoProcess
    BY DEF HonestInv, RecordInv, FreshInv
  <1> DEFINE h == srv'.held
  <1>5. Within(h, srv.held)
    BY ShrunkPlaces
  <1>6. \A i \in 1..Len(h) : Given(h[i])
    BY <1>5 DEF HonestInv, FreshInv, Within
  <1>7. \E T : h \in Seq(T)
    <2>1. \E T : srv.held \in Seq(T)
      BY DEF HonestInv, RecordInv
    <2>2. CASE h = srv.held
      BY <2>1, <2>2
    <2>3. CASE srv.held # <<>> /\ h = Tail(srv.held)
      BY <2>1, <2>3, TailPlaces
    <2> QED  BY <2>2, <2>3 DEF Shrinks
  <1> HIDE DEF h
  <1> QED  BY <1>1, <1>2, <1>3, <1>4, <1>6, <1>7, ServerBase DEF h

\* The fields that a message of the transport leaves alone.
LEMMA HeardRest ==
    ASSUME SshInv, NEW n \in Nat
    PROVE  /\ Heard(n).held = srv.held /\ Heard(n).chan = srv.chan
           /\ Said(n).held = srv.held /\ Said(n).chan = srv.chan
  <1>1. ServerShaped(srv)
    BY DEF SshInv, ServerShape, ServerShaped
  <1> DEFINE s == Said(n)
             h == Heard(n)
  <1>2. s = [srv EXCEPT !.out = Moved(srv.out, n)]
    BY DEF Said
  <1>3. h = [s EXCEPT !.in = Moved(s.in, 1)]
    BY DEF Heard
  <1> HIDE DEF s, h
  <1>4. ServerShaped(s) /\ s.held = srv.held /\ s.chan = srv.chan
    BY <1>1, <1>2 DEF ServerShaped
  <1>5. h.held = srv.held /\ h.chan = srv.chan
    BY <1>3, <1>4 DEF ServerShaped
  <1> QED  BY <1>4, <1>5 DEF s, h

LEMMA UpTaken == ASSUME SshInv, up # <<>>, up' = Tail(up) PROVE Shrinks(up, up')
  BY DEF SshInv, SshStreams, Chain, Shrinks

\* One or two messages of the transport.
Remote(ms) == Aloof(ms) /\ \A j \in 1..Len(ms) : ms[j].k \notin {"data", "exit"}

LEMMA RemoteOnes ==
    /\ Remote(<<>>)
    /\ \A k, v : k \notin {"open", "exec", "subsystem", "close", "data", "exit"} => Remote(<<M(k, 0, v)>>)
    /\ \A a, b : Remote(<<a>>) /\ Remote(<<b>>) => Remote(<<a, b>>)
  <1>1. Remote(<<>>)
    <2>1. \A i \in 1..Len(<<>>) : FALSE
      OBVIOUS
    <2> QED  BY <2>1, AloofOnes DEF Remote
  <1>2. ASSUME NEW k, NEW v, k \notin {"open", "exec", "subsystem", "close", "data", "exit"}
        PROVE  Remote(<<M(k, 0, v)>>)
    <2> DEFINE m == M(k, 0, v)
    <2>1. m.k = k /\ Aloof(<<m>>)
      BY <1>2, AloofOnes DEF M
    <2> HIDE DEF m
    <2>2. \A i \in 1..Len(<<m>>) : <<m>>[i] = m
      OBVIOUS
    <2>3. Remote(<<m>>)
      BY <1>2, <2>1, <2>2 DEF Remote
    <2> QED  BY <2>3 DEF m
  <1>3. ASSUME NEW a, NEW b, Remote(<<a>>), Remote(<<b>>)
        PROVE  Remote(<<a, b>>)
    <2>1. /\ <<a>>[1] = a /\ 1 \in 1..Len(<<a>>) /\ <<b>>[1] = b /\ 1 \in 1..Len(<<b>>)
      OBVIOUS
    <2>2. /\ a.c = 0 /\ a.k \notin {"open", "exec", "subsystem", "close", "data", "exit"}
          /\ b.c = 0 /\ b.k \notin {"open", "exec", "subsystem", "close", "data", "exit"}
      BY <1>3, <2>1 DEF Remote, Aloof
    <2>3. <<a, b>> \in Seq({a, b}) /\ Len(<<a, b>>) = 2 /\ <<a, b>>[1] = a /\ <<a, b>>[2] = b
      OBVIOUS
    <2>4. \A j \in 1..Len(<<a, b>>) : <<a, b>>[j] = a \/ <<a, b>>[j] = b
      BY <2>3
    <2> QED  BY <2>2, <2>3, <2>4 DEF Remote, Aloof
  <1> QED  BY <1>1, <1>2, <1>3

LEMMA ServerKexHonest == SshInv /\ HonestInv /\ ServerKex => HonestInv'
  <1> SUFFICES ASSUME SshInv, HonestInv, ServerKex PROVE HonestInv'
    OBVIOUS
  <1>0. up # <<>> /\ up' = Tail(up) /\ cl' = cl /\ ch' = ch /\ op' = op
    BY DEF ServerKex, Serves, Client
  <1>1. Shrinks(up, up')
    BY <1>0, UpTaken
  <1>2. ASSUME NEW ms, Remote(ms), Says(ms), srv'.held = srv.held, srv'.chan = srv.chan
        PROVE  HonestInv'
    BY <1>0, <1>1, <1>2, TransportHonest DEF Remote, Shrinks
  <1>3. \A n \in Nat : Heard(n).held = srv.held /\ Heard(n).chan = srv.chan /\ ServerShaped(Heard(n))
    BY HeardRest, HeardIs
  <1>4. Says(<<>>) <=> down' = down
    BY NothingSent DEF Says
  <1>5. CASE srv' = Heard(0) /\ down' = down
    BY <1>2, <1>3, <1>4, <1>5, RemoteOnes
  <1>6. ASSUME NEW good, srv' = Heard(1), Says(<<M("group", 0, good)>>) PROVE HonestInv'
    <2>1. Remote(<<M("group", 0, good)>>)
      BY RemoteOnes
    <2> QED  BY <1>2, <1>3, <1>6, <2>1
  <1>7. ASSUME NEW v, Says(<<M("reply", 0, v), M("newkeys", 0, 0)>>),
               srv' = [Heard(2) EXCEPT !.kex = "newkeys", !.out = FromZero(@)]
        PROVE  HonestInv'
    <2> DEFINE a == M("reply", 0, v)
               b == M("newkeys", 0, 0)
               ms == <<a, b>>
               h == Heard(2)
    <2>1. Remote(<<a>>) /\ Remote(<<b>>)
      BY RemoteOnes
    <2>2. h.held = srv.held /\ h.chan = srv.chan /\ ServerShaped(h)
          /\ srv' = [h EXCEPT !.kex = "newkeys", !.out = FromZero(h.out)]
      BY <1>3, <1>7
    <2>3. Says(ms)
      BY <1>7
    <2> HIDE DEF a, b, h
    <2>5. Remote(ms)
      BY <2>1, RemoteOnes
    <2> HIDE DEF ms
    <2>6. srv'.held = srv.held /\ srv'.chan = srv.chan
      BY <2>2 DEF ServerShaped
    <2> QED  BY <1>2, <2>3, <2>5, <2>6
  <1>8. CASE down' = down /\ srv' = [Heard(0) EXCEPT !.kex = "none", !.in = FromZero(@)]
    <2> DEFINE h == Heard(0)
    <2>1. h.held = srv.held /\ h.chan = srv.chan /\ ServerShaped(h)
          /\ srv' = [h EXCEPT !.kex = "none", !.in = FromZero(h.in)]
      BY <1>3, <1>8
    <2> HIDE DEF h
    <2>2. srv'.held = srv.held /\ srv'.chan = srv.chan
      BY <2>1 DEF ServerShaped
    <2> QED  BY <1>2, <1>4, <1>8, <2>2, RemoteOnes
  <1> QED  BY <1>5, <1>6, <1>7, <1>8 DEF ServerKex

LEMMA ServerAuthHonest == SshInv /\ HonestInv /\ ServerAuth => HonestInv'
  <1> SUFFICES ASSUME SshInv, HonestInv, ServerAuth PROVE HonestInv'
    OBVIOUS
  <1>0. cl' = cl /\ ch' = ch /\ op' = op
    BY DEF ServerAuth, Client
  <1>1. Shrinks(up, up') /\ Shrinks(srv.held, srv'.held) /\ srv'.chan = srv.chan
    <2>1. CASE srv.held # <<>> /\ srv' = [Said(1) EXCEPT !.held = Tail(@)] /\ up' = up
      <3> DEFINE h == Said(1)
      <3>1. h.held = srv.held /\ h.chan = srv.chan /\ ServerShaped(h)
        BY HeardRest, HeardIs
      <3>2. srv' = [h EXCEPT !.held = Tail(h.held)]
        BY <2>1
      <3> HIDE DEF h
      <3>3. srv'.held = Tail(srv.held) /\ srv'.chan = srv.chan
        BY <3>1, <3>2 DEF ServerShaped
      <3>4. \E S : srv.held \in Seq(S)
        BY DEF HonestInv, RecordInv
      <3> QED  BY <2>1, <3>3, <3>4 DEF Shrinks
    <2>2. CASE Serves /\ srv' = Heard(1) /\ up' = Tail(up)
      <3>1. Shrinks(up, up')
        BY <2>2, UpTaken DEF Serves
      <3>2. srv'.held = srv.held /\ srv'.chan = srv.chan
        BY <2>2, HeardRest
      <3> QED  BY <3>1, <3>2 DEF Shrinks
    <2> QED  BY <2>1, <2>2 DEF ServerAuth
  <1>2. PICK k \in {"accept", "success", "failure", "ask"} : Says(<<M(k, 0, 0)>>)
    BY JudgedSays DEF ServerAuth
  <1>3. Remote(<<M(k, 0, 0)>>)
    BY RemoteOnes
  <1> DEFINE ms == <<M(k, 0, 0)>>
  <1>4. Aloof(ms) /\ Says(ms) /\ \A j \in 1..Len(ms) : ms[j].k \notin {"data", "exit"}
    BY <1>2, <1>3 DEF Remote
  <1> HIDE DEF ms
  <1> QED  BY <1>0, <1>1, <1>4, TransportHonest

LEMMA ServerExtraHonest == SshInv /\ HonestInv /\ ServerExtra => HonestInv'
  <1> SUFFICES ASSUME SshInv, HonestInv, ServerExtra PROVE HonestInv'
    OBVIOUS
  <1>0. up' = up /\ cl' = cl /\ ch' = ch /\ op' = op /\ Shrinks(up, up')
    BY DEF ServerExtra, Client, Shrinks
  <1>1. ASSUME NEW ms, Remote(ms), Says(ms), srv'.held = srv.held, srv'.chan = srv.chan
        PROVE  HonestInv'
    BY <1>0, <1>1, TransportHonest DEF Remote, Shrinks
  <1> DEFINE s == Said(1)
  <1>2. s.held = srv.held /\ s.chan = srv.chan /\ ServerShaped(s)
    BY HeardRest, HeardIs
  <1>3. CASE Says(<<M("global", 0, 0)>>) /\ srv' = s
    <2>1. Remote(<<M("global", 0, 0)>>)
      BY RemoteOnes
    <2> QED  BY <1>1, <1>2, <1>3, <2>1
  <1> DEFINE offer == [strict |-> TRUE, method |-> "curve", guess |-> FALSE]
  <1>4. CASE Says(Kexinit(offer)) /\ srv' = [s EXCEPT !.rekeys = @ + 1, !.kex = "start"]
    <2> DEFINE ms == Kexinit(offer)
    <2>1. ms = <<M("kexinit", 0, offer)>>
      BY DEF Kexinit
    <2>2. Remote(<<M("kexinit", 0, offer)>>)
      BY RemoteOnes
    <2>3. Says(ms)
      BY <1>4
    <2> HIDE DEF offer, ms, s
    <2>4. srv'.held = srv.held /\ srv'.chan = srv.chan
      BY <1>2, <1>4 DEF ServerShaped
    <2> QED  BY <1>1, <2>1, <2>2, <2>3, <2>4
  <1> QED  BY <1>3, <1>4 DEF ServerExtra

LEMMA ServerHoldsHonest == SshInv /\ HonestInv /\ ServerHolds => HonestInv'
  <1> SUFFICES ASSUME SshInv, HonestInv, ServerHolds PROVE HonestInv'
    OBVIOUS
  <1>0. up # <<>> /\ up' = Tail(up) /\ cl' = cl /\ ch' = ch /\ op' = op /\ down' = down
    BY DEF ServerHolds, Serves, Client
  <1>1. Shrinks(up, up')
    BY <1>0, UpTaken
  <1>u. \E S : up \in Seq(S)
    BY DEF SshInv, SshStreams, Chain
  <1>2. srv'.chan = srv.chan /\ srv'.held = Append(srv.held, Head(up).m)
    <2> DEFINE h == Heard(0)
    <2>1. h.held = srv.held /\ h.chan = srv.chan /\ ServerShaped(h)
      BY HeardRest, HeardIs
    <2>2. srv' = [h EXCEPT !.held = Append(h.held, Asked)]
      BY DEF ServerHolds
    <2> HIDE DEF h
    <2> QED  BY <2>1, <2>2 DEF ServerShaped, Asked
  <1>h. \E S : srv.held \in Seq(S)
    BY DEF HonestInv, RecordInv
  <1>3. /\ \E T : srv'.held \in Seq(T)
        /\ \A i \in 1..Len(srv'.held) : Given(srv'.held[i])
    <2> DEFINE m == Head(up).m
    <2>1. Given(m)
      <3>1. 1 \in 1..Len(up) /\ Head(up) = up[1]
        BY <1>0, <1>u, TailPlaces
      <3> QED  BY <3>1 DEF HonestInv, FreshInv
    <2>2. PICK S : srv.held \in Seq(S)
      BY <1>h
    <2>3. srv.held \in Seq(S \cup {m}) /\ m \in S \cup {m} /\ srv'.held = Append(srv.held, m)
      BY <1>2, <2>2
    <2> HIDE DEF m
    <2>4. /\ srv'.held \in Seq(S \cup {m}) /\ Len(srv.held) \in Nat /\ Len(srv'.held) = Len(srv.held) + 1
          /\ \A i \in 1..Len(srv.held) : srv'.held[i] = srv.held[i]
          /\ srv'.held[Len(srv.held) + 1] = m
      BY <2>3
    <2>5. \A i \in 1..Len(srv'.held) : i \in 1..Len(srv.held) \/ i = Len(srv.held) + 1
      BY <2>4
    <2>6. \A i \in 1..Len(srv.held) : Given(srv.held[i])
      BY DEF HonestInv, FreshInv
    <2> QED  BY <2>1, <2>4, <2>5, <2>6
  <1>4. Joined(down, srv.out, <<>>, down') /\ \A j \in 1..Len(<<>>) : FALSE
    <2>1. Says(<<>>) /\ (\E T : <<>> \in Seq(T)) /\ \A j \in 1..Len(<<>>) : FALSE
      BY <1>0, NothingSent, AloofOnes DEF Says, Aloof
    <2> QED  BY <2>1, ServerSays
  <1>5. CommandInv'
    <2> SUFFICES ASSUME Commanding' PROVE AskInv' /\ OnceInv' /\ SpokenInv' /\ TellInv'
      BY DEF CommandInv
    <2>1. AskInv /\ OnceInv /\ SpokenInv /\ TellInv
      BY <1>0 DEF HonestInv, CommandInv, Commanding
    <2>2. Process' = Process
      BY <1>0, <1>2 DEF Process
    <2>3. Before' <=> Before
      BY <1>0, <2>2 DEF Before
    <2>4. AskInv' /\ OnceInv'
      BY <1>0, <1>2, <1>h, <1>u, <2>1, <2>3, AskingHeld
    <2>5. SameView
      BY <1>0, <2>2 DEF SameView
    <2>6. Passes(down, down', ch.id)
      BY <1>0, PassesSame
    <2> QED  BY <2>1, <2>4, <2>5, <2>6, TellingKept
  <1>6. /\ srv'.chan = [c \in Ids |-> srv'.chan[c]]
        /\ \A c \in Ids : ProcessShaped(srv'.chan[c])
        /\ \A c \in Ids : c >= cl.next => srv'.chan[c] = NoProcess
    BY <1>2 DEF HonestInv, RecordInv, FreshInv
  <1> QED  BY <1>0, <1>1, <1>3, <1>4, <1>5, <1>6, ServerBase

\* What an answer may do to the process behind the command's channel.
Undisturbed(p, q) ==
    /\ q.kind = p.kind \/ (p.kind \in {"none", "open"} /\ q.kind \in {"none", "open", "cmd"})
    /\ q.closed = p.closed /\ q.code = p.code
    /\ p.kind # "dead" => q.said = p.said

\* Nothing is left that would open the channel or start its command.
Settled ==
    /\ op.pc \notin Beginning
    /\ \A i \in 1..Len(up') : ~Mine(up'[i].m, {"open", "exec"})
    /\ \A i \in 1..Len(srv'.held) : ~Mine(srv'.held[i], {"open", "exec"})

\* The server changes one process and says something on its channel.
LEMMA ChannelBase ==
    ASSUME SshInv, HonestInv, cl' = cl, ch' = ch, op' = op, Shrinks(up, up'),
           Shrinks(srv.held, srv'.held), NEW c, NEW q, c \in Nat, c < cl.next,
           c \in Ids => ProcessShaped(q), srv'.chan = [srv.chan EXCEPT ![c] = q],
           NEW ms, \E T : ms \in Seq(T), Says(ms), \A j \in 1..Len(ms) : ms[j].c = c,
           Commanding /\ c = ch.id => AskInv' /\ OnceInv' /\ SpokenInv' /\ TellInv'
    PROVE  HonestInv'
  <1>1. Joined(down, srv.out, ms, down')
    BY ServerSays
  <1>2. \A j \in 1..Len(ms) : Given(ms[j])
    BY DEF Given
  <1>3. \A x \in Ids : srv'.chan[x] = IF x = c THEN q ELSE srv.chan[x]
    BY DEF HonestInv, RecordInv
  <1>4. srv'.chan = [x \in Ids |-> srv'.chan[x]]
    BY DEF HonestInv, RecordInv
  <1>5. \A x \in Ids : ProcessShaped(srv'.chan[x])
    BY <1>3 DEF HonestInv, RecordInv
  <1>6. \A x \in Ids : x >= cl.next => srv'.chan[x] = NoProcess
    <2> SUFFICES ASSUME NEW x \in Ids, x >= cl.next PROVE srv'.chan[x] = NoProcess
      OBVIOUS
    <2>1. x \in Nat /\ cl.next \in Nat
      BY SshSessionAssumption DEF Ids, HonestInv, FreshInv
    <2>2. x # c
      BY <2>1
    <2> QED  BY <1>3, <2>2 DEF HonestInv, FreshInv
  <1>7. CommandInv'
    <2> SUFFICES ASSUME Commanding', c # ch.id PROVE AskInv' /\ OnceInv' /\ SpokenInv' /\ TellInv'
      BY DEF CommandInv, Commanding
    <2>1. AskInv /\ OnceInv /\ SpokenInv /\ TellInv
      BY DEF HonestInv, CommandInv, Commanding
    <2>2. ch.id \in Ids => Process' = Process
      BY <1>3 DEF Process
    <2>3. AskInv' /\ OnceInv'
      <3>1. Before => Before'
        BY <2>2 DEF Before
      <3> QED  BY <2>1, <3>1, AskingTaken
    <2>4. SameView
      BY <2>2 DEF SameView
    <2>5. \A j \in 1..Len(ms) : ~Telling(ms[j], ch.id)
      BY DEF Telling
    <2>6. Passes(down, down', ch.id)
      BY <1>1, <2>5, PassesPut
    <2> QED  BY <2>1, <2>3, <2>4, <2>6, TellingKept
  <1>8. Within(srv'.held, srv.held)
    BY ShrunkPlaces
  <1>9. \A i \in 1..Len(srv'.held) : Given(srv'.held[i])
    BY <1>8 DEF HonestInv, FreshInv, Within
  <1>10. \E T : srv'.held \in Seq(T)
    <2>1. \E T : srv.held \in Seq(T)
      BY DEF HonestInv, RecordInv
    <2>2. CASE srv'.held = srv.held
      BY <2>1, <2>2
    <2>3. CASE srv.held # <<>> /\ srv'.held = Tail(srv.held)
      BY <2>1, <2>3, TailPlaces
    <2> QED  BY <2>2, <2>3 DEF Shrinks
  <1> QED  BY <1>1, <1>2, <1>4, <1>5, <1>6, <1>7, <1>9, <1>10, ServerBase

\* An answer on a channel.
LEMMA AnswerHonest ==
    ASSUME SshInv, HonestInv, cl' = cl, ch' = ch, op' = op, Shrinks(up, up'),
           Shrinks(srv.held, srv'.held), NEW c, NEW q, c \in Nat, c < cl.next,
           c \in Ids => ProcessShaped(q), srv'.chan = [srv.chan EXCEPT ![c] = q],
           NEW ms, \E T : ms \in Seq(T), Says(ms), \A j \in 1..Len(ms) : ms[j].c = c,
           Commanding /\ c = ch.id =>
             /\ \A j \in 1..Len(ms) : ms[j].k \notin {"data", "exit", "close"}
             /\ c \in Ids => Undisturbed(srv.chan[c], q)
             /\ Settled \/ (c \in Ids /\ Process.kind \in {"none", "open"} => q.kind \in {"none", "open"})
    PROVE  HonestInv'
  <1>1. ASSUME Commanding, c = ch.id PROVE AskInv' /\ OnceInv' /\ SpokenInv' /\ TellInv'
    <2>1. AskInv /\ OnceInv /\ SpokenInv /\ TellInv
      BY <1>1 DEF HonestInv, CommandInv
    <2>2. c \in Ids => Process = srv.chan[c] /\ Process' = q
      BY <1>1 DEF Process, HonestInv, RecordInv
    <2>3. AskInv' /\ OnceInv'
      <3>1. Settled \/ (Before => Before')
        BY <1>1, <2>2 DEF Before
      <3> QED  BY <2>1, <3>1, AskingTaken DEF Settled
    <2>4. SameView
      BY <1>1, <2>2 DEF SameView, Undisturbed
    <2>5. \A j \in 1..Len(ms) : ~Telling(ms[j], ch.id)
      BY <1>1 DEF Telling
    <2>6. Passes(down, down', ch.id)
      BY <2>5, ServerSays, PassesPut
    <2> QED  BY <2>1, <2>3, <2>4, <2>6, TellingKept
  <1> QED  BY <1>1, ChannelBase

\* What becomes of a process when a request for it is handled.
LEMMA ProcessShapes ==
    ASSUME NEW p, ProcessShaped(p)
    PROVE  /\ \A k : LET q == [p EXCEPT !.kind = k] IN
                ProcessShaped(q) /\ q.kind = k /\ q.closed = p.closed /\ q.code = p.code /\ q.said = p.said
           /\ LET q == [p EXCEPT !.pty = TRUE] IN ProcessShaped(q) /\ Undisturbed(p, q) /\ q.kind = p.kind
           /\ \A v : LET q == [p EXCEPT !.inbox = Append(@, v)] IN
                ProcessShaped(q) /\ Undisturbed(p, q) /\ q.kind = p.kind
           /\ LET q == [p EXCEPT !.eof = TRUE] IN ProcessShaped(q) /\ Undisturbed(p, q) /\ q.kind = p.kind
           /\ \A v : LET q == [p EXCEPT !.room = @ + v] IN
                ProcessShaped(q) /\ Undisturbed(p, q) /\ q.kind = p.kind
           /\ LET q == [p EXCEPT !.eof = TRUE, !.closed = TRUE] IN ProcessShaped(q)
           /\ \A v : LET q == [Gone EXCEPT !.code = v] IN
                ProcessShaped(q) /\ q.kind = "dead" /\ q.closed = TRUE /\ q.code = v
           /\ Undisturbed(p, p)
  <1>2. ASSUME NEW k PROVE LET q == [p EXCEPT !.kind = k] IN
                ProcessShaped(q) /\ q.kind = k /\ q.closed = p.closed /\ q.code = p.code /\ q.said = p.said
    BY DEF ProcessShaped
  <1>3. LET q == [p EXCEPT !.pty = TRUE] IN ProcessShaped(q) /\ Undisturbed(p, q) /\ q.kind = p.kind
    <2> DEFINE q == [p EXCEPT !.pty = TRUE]
    <2>1. q = [p EXCEPT !.pty = TRUE]
      OBVIOUS
    <2> HIDE DEF q
    <2>2. /\ ProcessShaped(q) /\ q.kind = p.kind /\ q.closed = p.closed /\ q.code = p.code
          /\ q.said = p.said
      BY <2>1 DEF ProcessShaped
    <2>3. Undisturbed(p, q)
      BY <2>2 DEF Undisturbed
    <2> QED  BY <2>2, <2>3 DEF q
  <1>4. ASSUME NEW v PROVE LET q == [p EXCEPT !.inbox = Append(@, v)] IN
          ProcessShaped(q) /\ Undisturbed(p, q) /\ q.kind = p.kind
    BY SMTT(30) DEF ProcessShaped, Undisturbed
  <1>5. LET q == [p EXCEPT !.eof = TRUE] IN ProcessShaped(q) /\ Undisturbed(p, q) /\ q.kind = p.kind
    <2> DEFINE q == [p EXCEPT !.eof = TRUE]
    <2>1. q = [p EXCEPT !.eof = TRUE]
      OBVIOUS
    <2> HIDE DEF q
    <2>2. /\ ProcessShaped(q) /\ q.kind = p.kind /\ q.closed = p.closed /\ q.code = p.code
          /\ q.said = p.said
      BY <2>1 DEF ProcessShaped
    <2>3. Undisturbed(p, q)
      BY <2>2 DEF Undisturbed
    <2> QED  BY <2>2, <2>3 DEF q
  <1>6. ASSUME NEW v PROVE LET q == [p EXCEPT !.room = @ + v] IN
          ProcessShaped(q) /\ Undisturbed(p, q) /\ q.kind = p.kind
    BY DEF ProcessShaped, Undisturbed
  <1>7. LET q == [p EXCEPT !.eof = TRUE, !.closed = TRUE] IN ProcessShaped(q)
    <2> DEFINE q == [p EXCEPT !.eof = TRUE, !.closed = TRUE]
    <2>1. q = [p EXCEPT !.eof = TRUE, !.closed = TRUE]
      OBVIOUS
    <2> HIDE DEF q
    <2>2. ProcessShaped(q)
      BY <2>1 DEF ProcessShaped
    <2> QED  BY <2>2 DEF q
  <1>8. ASSUME NEW v PROVE LET q == [Gone EXCEPT !.code = v] IN
          ProcessShaped(q) /\ q.kind = "dead" /\ q.closed = TRUE /\ q.code = v
    <2> DEFINE g == Gone
    <2>1. g = [NoProcess EXCEPT !.kind = "dead", !.closed = TRUE] /\ ProcessShaped(NoProcess)
      BY DEF Gone, NoProcess, ProcessShaped
    <2> HIDE DEF g
    <2>2. ProcessShaped(g) /\ g.kind = "dead" /\ g.closed = TRUE
      BY <2>1 DEF ProcessShaped
    <2>3. LET q == [g EXCEPT !.code = v] IN
          ProcessShaped(q) /\ q.kind = "dead" /\ q.closed = TRUE /\ q.code = v
      BY <2>2 DEF ProcessShaped
    <2> QED  BY <2>3 DEF g
  <1>9. Undisturbed(p, p)
    BY DEF Undisturbed
  <1> QED  BY <1>2, <1>3, <1>4, <1>5, <1>6, <1>7, <1>8, <1>9

LEMMA HandledHonest ==
    ASSUME SshInv, HonestInv, cl' = cl, ch' = ch, op' = op, Shrinks(up, up'),
           NEW s, ServerShaped(s), s.chan = srv.chan, Shrinks(srv.held, s.held),
           NEW m, Given(m), Commanding => Calm(m),
           Commanding /\ Mine(m, {"exec"}) =>
             /\ \A i \in 1..Len(up') : ~Mine(up'[i].m, {"open", "exec"})
             /\ \A i \in 1..Len(s.held) : ~Mine(s.held[i], {"open", "exec"}),
           Handled(s, m)
    PROVE  HonestInv'
  <1> DEFINE p == s.chan[m.c]
             with(q, ms) == /\ Says(ms)
                            /\ srv' = [s EXCEPT !.chan[m.c] = q, !.out = Moved(@, Len(ms))]
             one(k) == <<M(k, m.c, 0)>>
             mild(ms) == /\ (\E T : ms \in Seq(T)) /\ \A j \in 1..Len(ms) : ms[j].c = m.c
                         /\ \A j \in 1..Len(ms) : ms[j].k \notin {"data", "exit", "close"}
  <1>0. p = srv.chan[m.c] /\ m.c \in Nat /\ m.c < cl.next
    BY DEF Given
  <1>1. ASSUME NEW q, NEW ms, with(q, ms)
        PROVE  srv'.held = s.held /\ srv'.chan = [srv.chan EXCEPT ![m.c] = q] /\ Says(ms)
    <2> DEFINE x == [s.chan EXCEPT ![m.c] = q]
    <2>1. srv' = [s EXCEPT !.chan = x, !.out = Moved(s.out, Len(ms))] /\ Says(ms)
      BY <1>1
    <2>2. x = [srv.chan EXCEPT ![m.c] = q]
      OBVIOUS
    <2> HIDE DEF x, with
    <2> QED  BY <2>1, <2>2 DEF ServerShaped
  <1>2. mild(<<>>) /\ \A k, v : k \notin {"data", "exit", "close"} => mild(<<M(k, m.c, v)>>)
    <2>1. <<>> \in Seq({}) /\ \A j \in 1..Len(<<>>) : FALSE
      OBVIOUS
    <2>2. ASSUME NEW k, NEW v, k \notin {"data", "exit", "close"} PROVE mild(<<M(k, m.c, v)>>)
      <3> DEFINE n == M(k, m.c, v)
      <3>1. n.k = k /\ n.c = m.c
        BY DEF M
      <3> HIDE DEF n
      <3>2. <<n>> \in Seq({n}) /\ \A j \in 1..Len(<<n>>) : <<n>>[j] = n
        OBVIOUS
      <3>3. mild(<<n>>)
        BY <2>2, <3>1, <3>2
      <3> QED  BY <3>3 DEF n
    <2> QED  BY <2>1, <2>2
  <1>o. \A k : k \in {"refused", "ok", "no"} => mild(one(k))
    BY <1>2
  <1>s. m.c \in Ids => ProcessShaped(p)
    BY <1>0 DEF HonestInv, RecordInv
  <1> HIDE DEF with, mild
  \* The process is undisturbed, or not the command's.
  <1>3. ASSUME NEW q, NEW ms, with(q, ms), mild(ms), m.c \in Ids => ProcessShaped(q),
               Commanding /\ m.c = ch.id /\ m.c \in Ids => Undisturbed(p, q),
               Commanding /\ m.c = ch.id =>
                 Settled \/ (m.c \in Ids /\ p.kind \in {"none", "open"} => q.kind \in {"none", "open"})
        PROVE  HonestInv'
    <2>1. srv'.held = s.held /\ srv'.chan = [srv.chan EXCEPT ![m.c] = q] /\ Says(ms)
      BY <1>1, <1>3
    <2>2. Shrinks(srv.held, srv'.held)
      BY <2>1
    <2>3. /\ (\E T : ms \in Seq(T)) /\ \A j \in 1..Len(ms) : ms[j].c = m.c
          /\ \A j \in 1..Len(ms) : ms[j].k \notin {"data", "exit", "close"}
      BY <1>3 DEF mild
    <2>4. Commanding /\ m.c = ch.id =>
             /\ m.c \in Ids => Undisturbed(srv.chan[m.c], q)
             /\ Settled \/ (m.c \in Ids /\ Process.kind \in {"none", "open"} => q.kind \in {"none", "open"})
      BY <1>0, <1>3 DEF Process
    <2> QED  BY <1>0, <1>3, <2>1, <2>2, <2>3, <2>4, AnswerHonest
  <1>4. ASSUME NEW q, NEW ms, with(q, ms), mild(ms),
               ProcessShaped(p) => ProcessShaped(q) /\ Undisturbed(p, q) /\ q.kind = p.kind
        PROVE  HonestInv'
    BY <1>3, <1>4, <1>s
  <1>5. ProcessShaped(p) => Undisturbed(p, p)
    BY ProcessShapes
  <1>p. \A ms : with(p, ms) /\ mild(ms) => HonestInv'
    BY <1>4, <1>5
  <1>6. CASE m.k = "open"
    <2> DEFINE q == [p EXCEPT !.kind = "open", !.room = Window]
               ms == <<M("conf", m.c, Window)>>
    <2>1. with(q, ms) \/ with(p, one("refused"))
      BY <1>6 DEF Handled, with
    <2>2. mild(ms) /\ mild(one("refused"))
      BY <1>2, <1>o
    <2>3. ProcessShaped(p) => /\ ProcessShaped(q) /\ q.kind = "open" /\ q.closed = p.closed
                              /\ q.code = p.code /\ q.said = p.said
      <3> HIDE DEF p
      <3>1. q = [p EXCEPT !.kind = "open", !.room = Window]
        OBVIOUS
      <3> HIDE DEF q
      <3> QED  BY <3>1 DEF ProcessShaped
    <2> HIDE DEF q, ms
    <2>4. Commanding /\ m.c = ch.id /\ m.c \in Ids => p.kind \in {"none", "open"}
      BY <1>0, <1>6 DEF Calm, Before, Process
    <2>5. ProcessShaped(p) /\ p.kind \in {"none", "open"} => Undisturbed(p, q)
      BY <2>3 DEF Undisturbed
    <2>6. CASE with(q, ms)
      BY <1>3, <1>s, <2>2, <2>3, <2>4, <2>5, <2>6
    <2> QED  BY <1>p, <2>1, <2>2, <2>6
  <1>7. CASE m.k = "pty"
    <2> DEFINE q == [p EXCEPT !.pty = TRUE]
    <2>1. with(q, one("ok")) \/ with(p, one("no"))
      BY <1>7 DEF Handled, with
    <2>2. mild(one("ok")) /\ mild(one("no"))
      BY <1>o
    <2>3. ProcessShaped(p) => ProcessShaped(q) /\ Undisturbed(p, q) /\ q.kind = p.kind
      BY ProcessShapes
    <2> HIDE DEF q
    <2> QED  BY <1>4, <1>p, <2>1, <2>2, <2>3
  <1>8. CASE m.k \in {"exec", "subsystem"}
    <2> DEFINE q == [p EXCEPT !.kind = Running(m)]
    <2>1. with(q, one("ok")) \/ with(p, one("no"))
      BY <1>8 DEF Handled, with
    <2>2. mild(one("ok")) /\ mild(one("no"))
      BY <1>o
    <2>3. ProcessShaped(p) => /\ ProcessShaped(q) /\ q.kind = Running(m) /\ q.closed = p.closed
                              /\ q.code = p.code /\ q.said = p.said
      <3> HIDE DEF p
      <3>1. ASSUME ProcessShaped(p), NEW k
            PROVE  LET x == [p EXCEPT !.kind = k] IN
                   /\ ProcessShaped(x) /\ x.kind = k /\ x.closed = p.closed /\ x.code = p.code
                   /\ x.said = p.said
        BY <3>1, ProcessShapes
      <3> QED  BY <3>1
    <2> HIDE DEF q
    <2>4. CASE with(q, one("ok"))
      <3>1. ASSUME Commanding, m.c = ch.id
            PROVE  /\ Running(m) = "cmd" /\ Settled
                   /\ m.c \in Ids => p.kind \in {"none", "open"}
        <4>1. /\ m.k = "exec" /\ m.v = "none" /\ op.pc \notin Beginning
              /\ m.c \in Ids => p.kind \in {"none", "open"}
          BY <1>0, <1>8, <3>1 DEF Calm, Before, Process, Beginning
        <4>2. Running(m) = "cmd"
          BY <4>1 DEF Running
        <4>3. srv'.held = s.held /\ Mine(m, {"exec"})
          BY <1>1, <2>4, <3>1, <4>1 DEF Mine
        <4> QED  BY <3>1, <4>1, <4>2, <4>3 DEF Settled
      <3>2. Commanding /\ m.c = ch.id /\ m.c \in Ids => Undisturbed(p, q)
        BY <1>s, <2>3, <3>1 DEF Undisturbed
      <3> QED  BY <1>3, <1>s, <2>2, <2>3, <2>4, <3>1, <3>2
    <2> QED  BY <1>p, <2>1, <2>2, <2>4
  <1>9. CASE m.k = "data"
    <2> DEFINE q == [p EXCEPT !.inbox = Append(@, m.v)]
               ms == <<M("adjust", m.c, 1)>>
    <2>1. with(p, ms) \/ with(q, <<>>)
      BY <1>9 DEF Handled, with
    <2>2. mild(ms) /\ mild(<<>>)
      BY SMTT(30), <1>2
    <2>3. ProcessShaped(p) => ProcessShaped(q) /\ Undisturbed(p, q) /\ q.kind = p.kind
      BY ProcessShapes
    <2> HIDE DEF q, ms
    <2> QED  BY <1>4, <1>p, <2>1, <2>2, <2>3
  <1>10. CASE m.k = "eof"
    <2> DEFINE q == [p EXCEPT !.eof = TRUE]
    <2>1. with(q, <<>>)
      BY <1>10 DEF Handled, with
    <2>3. ProcessShaped(p) => ProcessShaped(q) /\ Undisturbed(p, q) /\ q.kind = p.kind
      BY ProcessShapes
    <2> HIDE DEF q
    <2> QED  BY <1>2, <1>4, <2>1, <2>3
  <1>11. CASE m.k = "adjust"
    <2> DEFINE q == [p EXCEPT !.room = @ + m.v]
    <2>1. with(q, <<>>)
      BY <1>11 DEF Handled, with
    <2>3. ProcessShaped(p) => ProcessShaped(q) /\ Undisturbed(p, q) /\ q.kind = p.kind
      BY ProcessShapes
    <2> HIDE DEF q
    <2> QED  BY <1>2, <1>4, <2>1, <2>3
  <1>12. CASE m.k = "no"
    <2>1. srv' = s /\ down' = down
      BY <1>12 DEF Handled
    <2>2. Says(<<>>)
      BY <2>1, NothingSent DEF Says
    <2>3. srv'.chan = [srv.chan EXCEPT ![m.c] = p]
      <3>1. srv.chan = [c \in Ids |-> srv.chan[c]]
        BY DEF HonestInv, RecordInv
      <3> QED  BY <1>0, <2>1, <3>1
    <2>4. /\ (\E T : <<>> \in Seq(T)) /\ \A j \in 1..Len(<<>>) : FALSE
      BY AloofOnes DEF Aloof
    <2>5. Shrinks(srv.held, srv'.held)
      BY <2>1
    <2>6. Process = srv.chan[ch.id]
      BY DEF Process
    <2>7. m.c \in Ids => ProcessShaped(p) /\ Undisturbed(p, p)
      BY <1>5, <1>s
    <2> HIDE DEF p
    <2> QED  BY <1>0, <2>2, <2>3, <2>4, <2>5, <2>6, <2>7, AnswerHonest
  <1>13. CASE m.k = "close"
    <2> DEFINE q == IF p.kind \in {"sftp", "cat"} THEN [p EXCEPT !.eof = TRUE, !.closed = TRUE]
                    ELSE [Gone EXCEPT !.code = p.code]
               ms == IF p.closed THEN <<>> ELSE one("close")
    <2>1. with(q, ms)
      BY <1>13 DEF Handled, with
    <2>2. srv'.held = s.held /\ srv'.chan = [srv.chan EXCEPT ![m.c] = q] /\ Says(ms)
      BY <1>1, <2>1
    <2>3. ProcessShaped(p) => ProcessShaped(q)
      BY ProcessShapes
    <2>4. (\E T : ms \in Seq(T)) /\ \A j \in 1..Len(ms) : ms[j].c = m.c
      <3>1. <<>> \in Seq({}) /\ \A j \in 1..Len(<<>>) : FALSE
        OBVIOUS
      <3> DEFINE n == M("close", m.c, 0)
      <3>2. n.c = m.c /\ (ms = <<>> \/ ms = <<n>>)
        BY DEF M
      <3> HIDE DEF n, ms
      <3>3. <<n>> \in Seq({n}) /\ \A j \in 1..Len(<<n>>) : <<n>>[j] = n
        OBVIOUS
      <3> QED  BY <3>1, <3>2, <3>3
    <2>5. ASSUME Commanding, m.c = ch.id
          PROVE  m.c \in Ids /\ ms = <<>> /\ Undisturbed(p, q) /\ p.kind = "dead"
      <3>1. ch.closeIn /\ TellInv
        BY <1>13, <2>5 DEF Calm, HonestInv, CommandInv
      <3>2. m.c \in Ids /\ p.kind = "dead" /\ p.closed
        BY <1>0, <2>5, <3>1 DEF TellInv, Over, Process
      <3>3. q = [Gone EXCEPT !.code = p.code] /\ ms = <<>>
        BY <3>2
      <3>4. ProcessShaped(p)
        BY <1>s, <3>2
      <3>5. q.kind = "dead" /\ q.closed = TRUE /\ q.code = p.code
        <4>1. \A v : LET x == [Gone EXCEPT !.code = v] IN
                       x.kind = "dead" /\ x.closed = TRUE /\ x.code = v
          BY <3>4, ProcessShapes
        <4> QED  BY <3>3, <4>1
      <3>6. p.closed = TRUE
        BY <3>1, <2>5, <3>2, <1>0 DEF TellInv, Process
      <3> HIDE DEF q
      <3>7. Undisturbed(p, q)
        BY <3>2, <3>5, <3>6 DEF Undisturbed
      <3> QED  BY <3>2, <3>3, <3>7
    <2>6. Shrinks(srv.held, srv'.held)
      BY <2>2
    <2>7. \A j \in 1..Len(<<>>) : FALSE
      OBVIOUS
    <2>8. Commanding /\ m.c = ch.id =>
             /\ \A j \in 1..Len(ms) : ms[j].k \notin {"data", "exit", "close"}
             /\ m.c \in Ids => Undisturbed(srv.chan[m.c], q)
             /\ Settled \/ (m.c \in Ids /\ Process.kind \in {"none", "open"} => q.kind \in {"none", "open"})
      BY <1>0, <2>5, <2>7 DEF Process
    <2> HIDE DEF q, ms
    <2> QED  BY <1>0, <1>s, <2>2, <2>3, <2>4, <2>6, <2>8, AnswerHonest
  <1> QED  BY <1>6, <1>7, <1>8, <1>9, <1>10, <1>11, <1>12, <1>13 DEF Handled

LEMMA ServerHandlesHonest == SshInv /\ HonestInv /\ ServerHandles => HonestInv'
  <1> SUFFICES ASSUME SshInv, HonestInv, ServerHandles PROVE HonestInv'
    OBVIOUS
  <1>0. cl' = cl /\ ch' = ch /\ op' = op
    BY DEF ServerHandles, Client
  <1>h. \E S : srv.held \in Seq(S)
    BY DEF HonestInv, RecordInv
  <1>u. \E S : up \in Seq(S)
    BY DEF SshInv, SshStreams, Chain
  <1>i. Commanding => AskInv /\ OnceInv
    BY DEF HonestInv, CommandInv
  <1>1. CASE srv.held # <<>> /\ Handled([srv EXCEPT !.held = Tail(@)], Head(srv.held)) /\ UNCHANGED up
    <2> DEFINE s == [srv EXCEPT !.held = Tail(@)]
               m == Head(srv.held)
    <2>1. s = [srv EXCEPT !.held = Tail(@)] /\ Handled(s, m)
      BY <1>1
    <2>2. ServerShaped(srv)
      BY HeardIs
    <2> HIDE DEF s
    <2>3. ServerShaped(s) /\ s.chan = srv.chan /\ s.held = Tail(srv.held)
      BY <2>1, <2>2 DEF ServerShaped
    <2>4. /\ 1 \in 1..Len(srv.held) /\ m = srv.held[1] /\ Len(s.held) \in Nat
          /\ \A i \in 1..Len(s.held) :
               i + 1 \in 1..Len(srv.held) /\ i + 1 # 1 /\ s.held[i] = srv.held[i + 1]
      BY <1>1, <1>h, <2>3, TailPlaces
    <2>5. Shrinks(srv.held, s.held) /\ Shrinks(up, up')
      BY <1>1, <1>h, <2>3 DEF Shrinks
    <2> HIDE DEF m
    <2>6. Given(m) /\ (Commanding => Calm(m))
      BY <1>i, <2>4 DEF HonestInv, FreshInv, AskInv
    <2>7. ASSUME Commanding, Mine(m, {"exec"})
          PROVE  /\ \A i \in 1..Len(up') : ~Mine(up'[i].m, {"open", "exec"})
                 /\ \A i \in 1..Len(s.held) : ~Mine(s.held[i], {"open", "exec"})
      <3>1. OnceInv /\ up' = up
        BY <1>1, <1>i, <2>7
      <3>2. \A i \in 1..Len(up) : ~Mine(up[i].m, {"open", "exec"})
        BY <2>4, <2>7, <3>1 DEF OnceInv, Clash
      <3>3. ASSUME NEW i \in 1..Len(s.held) PROVE ~Mine(s.held[i], {"open", "exec"})
        <4>1. 1 < i + 1
          BY <2>4
        <4> QED  BY <2>4, <2>7, <3>1, <4>1 DEF OnceInv, Clash
      <3> QED  BY <3>1, <3>2, <3>3
    <2> QED  BY <1>0, <2>1, <2>3, <2>5, <2>6, <2>7, HandledHonest
  <1>2. CASE srv.held = <<>> /\ Serves /\ Handled(Heard(0), Asked) /\ up' = Tail(up)
    <2> DEFINE s == Heard(0)
               m == Asked
    <2>1. ServerShaped(s) /\ s.chan = srv.chan /\ s.held = srv.held /\ Handled(s, m) /\ up # <<>>
      BY <1>2, HeardIs, HeardRest DEF Serves
    <2> HIDE DEF s
    <2>4. /\ 1 \in 1..Len(up) /\ m = up[1].m /\ Len(up') \in Nat
          /\ \A i \in 1..Len(up') : i + 1 \in 1..Len(up) /\ i + 1 # 1 /\ up'[i] = up[i + 1]
      BY <1>2, <1>u, <2>1, TailPlaces DEF Asked
    <2>5. Shrinks(srv.held, s.held) /\ Shrinks(up, up')
      BY <1>2, <1>u, <2>1 DEF Shrinks
    <2> HIDE DEF m
    <2>6. Given(m) /\ (Commanding => Calm(m))
      BY <1>i, <2>4 DEF HonestInv, FreshInv, AskInv
    <2>7. ASSUME Commanding, Mine(m, {"exec"})
          PROVE  /\ \A i \in 1..Len(up') : ~Mine(up'[i].m, {"open", "exec"})
                 /\ \A i \in 1..Len(s.held) : ~Mine(s.held[i], {"open", "exec"})
      <3>1. OnceInv
        BY <1>i, <2>7
      <3>2. \A i \in 1..Len(<<>>) : FALSE
        OBVIOUS
      <3>3. ASSUME NEW i \in 1..Len(up') PROVE ~Mine(up'[i].m, {"open", "exec"})
        <4>1. 1 < i + 1
          BY <2>4
        <4> QED  BY <2>4, <2>7, <3>1, <4>1 DEF OnceInv, Clash
      <3> QED  BY <1>2, <2>1, <3>2, <3>3
    <2> QED  BY <1>0, <2>1, <2>5, <2>6, <2>7, HandledHonest
  <1> QED  BY <1>1, <1>2 DEF ServerHandles

\* A running command is not over: neither its exit status nor its close is on
\* its way, and no close was received.
LEMMA RunningOn ==
    ASSUME TellInv, ch.id \in Ids, Process.kind = "cmd"
    PROVE  /\ ~Over /\ ~ch.closeIn /\ ~Process.closed /\ ~Before
           /\ \A i \in 1..Len(down) : ~Mine(down[i].m, {"exit", "close"})
           /\ Process.said \in 0..2 /\ Told(Process.said)
  <1>1. ~Over
    BY DEF Over
  <1> QED  BY <1>1 DEF TellInv, Own, Mine, Before

\* The command says one unit more.
LEMMA SaysOwn ==
    ASSUME AskInv, OnceInv, SpokenInv, TellInv, ch' = ch, op' = op, up' = up, srv'.held = srv.held,
           ch.id \in Ids, Process.kind = "cmd", Process'.kind = "cmd", ~Process'.closed,
           Process.said \in {0, 1}, Process'.said = Process.said + 1,
           NEW d, NEW ms, Joined(down, d, ms, down'), 1 \in 1..Len(ms), \A j \in 1..Len(ms) : j = 1,
           ms[1].c = ch.id, ms[1].k = "data", ms[1].v = ch.id
    PROVE  AskInv' /\ OnceInv' /\ SpokenInv' /\ TellInv'
  <1>0. /\ \A i \in 1..Len(down') :
                \/ i \in 1..Len(down) /\ down'[i] = down[i]
                \/ \E j \in 1..Len(ms) : i = Len(down) + j /\ down'[i].m = ms[j]
        /\ Len(down) \in Nat
    BY PutPlaces
  <1>1. /\ ~Over /\ ~ch.closeIn /\ ~Before
        /\ \A i \in 1..Len(down) : ~Mine(down[i].m, {"exit", "close"})
        /\ Told(Process.said)
    BY RunningOn
  <1>2. AskInv' /\ OnceInv'
    <2>1. Shrinks(up, up') /\ Shrinks(srv.held, srv'.held)
      BY DEF Shrinks
    <2> QED  BY <1>1, <2>1, AskingTaken
  <1>3. \A i \in 1..Len(down') : ~Mine(down'[i].m, {"exit", "close"})
    BY <1>0, <1>1 DEF Mine
  <1>4. SpokenInv'
    BY <1>3 DEF SpokenInv, Misplaced, Mine
  <1>5. ASSUME NEW i \in 1..Len(down') PROVE Own(down[i].m)'
    <2>1. CASE i \in 1..Len(down) /\ down'[i] = down[i]
      <3>1. Own(down[i].m) /\ ~Mine(down'[i].m, {"exit", "close"})
        BY <1>3, <2>1 DEF TellInv
      <3> QED  BY <2>1, <3>1 DEF Own, Mine
    <2>2. CASE down'[i].m = ms[1]
      BY <2>2 DEF Own
    <2> QED  BY <1>0, <2>1, <2>2
  <1>6. Told(Process.said)'
    <2>1. PICK a \in 0..2, b \in 0..2 : a + b = Process.said /\ Received(a) /\ Coming(down, ch.id, b)
      BY <1>1 DEF Told
    <2>2. b \in {0, 1} /\ b + 1 \in 0..2 /\ a + (b + 1) = Process.said + 1
      BY <2>1
    <2>3. Coming(down', ch.id, b + 1)
      BY <2>1, <2>2, ComingMore
    <2>4. Received(a)'
      BY <2>1 DEF Received
    <2>5. a + (b + 1) = Process'.said /\ Coming(down', ch'.id, b + 1)
      BY <2>2, <2>3
    <2> QED  BY <2>2, <2>4, <2>5 DEF Told
  <1>7. ~Over' /\ Process'.said \in 0..2
    BY DEF Over
  <1> QED  BY <1>1, <1>2, <1>4, <1>5, <1>6, <1>7 DEF TellInv

\* The command ends.
LEMMA EndsOwn ==
    ASSUME AskInv, OnceInv, SpokenInv, TellInv, ch' = ch, op' = op, up' = up, srv'.held = srv.held,
           ch.id \in Ids, Process.kind = "cmd", Process.said = 2,
           Process'.kind = "dead", Process'.closed,
           NEW d, NEW ms, Joined(down, d, ms, down'), 1 \in 1..Len(ms),
           ms[1].c = ch.id, ms[1].k = "exit", ms[1].v = Process'.code,
           \A j \in 1..Len(ms) : j # 1 => ms[j].k \in {"eof", "close"}
    PROVE  AskInv' /\ OnceInv' /\ SpokenInv' /\ TellInv'
  <1>0. /\ \A i \in 1..Len(down') :
                \/ i \in 1..Len(down) /\ down'[i] = down[i]
                \/ \E j \in 1..Len(ms) : i = Len(down) + j /\ down'[i].m = ms[j]
        /\ \A j \in 1..Len(ms) : Len(down) + j \in 1..Len(down') /\ down'[Len(down) + j].m = ms[j]
        /\ Len(down) \in Nat
    BY PutPlaces
  <1>1. /\ ~ch.closeIn /\ ~Before
        /\ \A i \in 1..Len(down) : ~Mine(down[i].m, {"exit", "close"})
        /\ Told(2)
    BY RunningOn
  <1>2. AskInv' /\ OnceInv'
    <2>1. Shrinks(up, up') /\ Shrinks(srv.held, srv'.held)
      BY DEF Shrinks
    <2> QED  BY <1>1, <2>1, AskingTaken
  <1>o. Over'
    BY DEF Over
  <1>4. SpokenInv'
    <2> SUFFICES ASSUME NEW i \in 1..Len(down'), NEW k \in 1..Len(down'), i < k,
                        Misplaced(down[i].m, down[k].m)'
                 PROVE  FALSE
      BY DEF SpokenInv
    <2>1. Mine(down'[i].m, {"exit", "close"}) /\ Mine(down'[k].m, {"data", "exit"})
      BY DEF Misplaced, Mine
    <2>2. PICK j \in 1..Len(ms) : i = Len(down) + j
      BY <1>0, <1>1, <2>1
    <2>3. k \notin 1..Len(down)
      BY <1>0, <2>2
    <2>4. PICK l \in 1..Len(ms) : k = Len(down) + l /\ down'[k].m = ms[l]
      BY <1>0, <2>3
    <2>5. l # 1
      BY <1>0, <2>2, <2>4
    <2> QED  BY <2>1, <2>4, <2>5 DEF Mine
  <1>5. ASSUME NEW i \in 1..Len(down') PROVE Own(down[i].m)'
    <2>1. CASE i \in 1..Len(down) /\ down'[i] = down[i]
      <3>1. Own(down[i].m) /\ ~Mine(down'[i].m, {"exit", "close"})
        BY <1>1, <2>1 DEF TellInv
      <3> QED  BY <2>1, <3>1 DEF Own, Mine
    <2>2. ASSUME NEW j \in 1..Len(ms), down'[i].m = ms[j] PROVE Own(down[i].m)'
      BY <1>1, <1>o, <2>2 DEF Own
    <2> QED  BY <1>0, <2>1, <2>2
  <1>6. Told(2)'
    <2>1. PICK a \in 0..2, b \in 0..2 : a + b = 2 /\ Received(a) /\ Coming(down, ch.id, b)
      BY <1>1 DEF Told
    <2>2. \A j \in 1..Len(ms) : ~(ms[j].c = ch.id /\ ms[j].k = "data")
      OBVIOUS
    <2>3. Coming(down', ch'.id, b)
      BY <2>1, <2>2, ComingPut
    <2>4. Received(a)'
      BY <2>1 DEF Received
    <2> QED  BY <2>1, <2>3, <2>4 DEF Told
  <1>7. Exiting'
    <2>1. Len(down) + 1 \in 1..Len(down') /\ down'[Len(down) + 1].m = ms[1]
      BY <1>0
    <2> DEFINE e == Len(down) + 1
    <2>3. e \in 1..Len(down') /\ down'[e].m.c = ch'.id /\ down'[e].m.k = "exit"
      BY <2>1
    <2> HIDE DEF e
    <2> QED  BY <2>3 DEF Exiting, Mine
  <1> QED  BY <1>2, <1>4, <1>5, <1>6, <1>7, <1>o DEF TellInv

LEMMA ProcessesHonest ==
    ASSUME SshInv, HonestInv, NEW c \in Ids,
           CommandSays(c) \/ ProcessEnds(c) \/ CatServes(c) \/ (\E code \in {0, 1} : SftpServes(c, code))
    PROVE  HonestInv'
  <1> DEFINE p == srv.chan[c]
  <1>0. up' = up /\ cl' = cl /\ ch' = ch /\ op' = op
    BY DEF CommandSays, ProcessEnds, CatServes, SftpServes, Client
  <1>1. ServerShaped(srv) /\ ProcessShaped(p)
    BY SMTT(30), HeardIs DEF HonestInv, RecordInv
  <1>2. p.kind \in {"cmd", "sftp", "cat"}
    BY DEF CommandSays, ProcessEnds, CatServes, SftpServes
  <1>3. c \in Nat /\ c < cl.next
    <2>1. c \in Nat /\ cl.next \in Nat
      BY SshSessionAssumption DEF Ids, HonestInv, FreshInv
    <2>2. p # NoProcess
      BY <1>2 DEF NoProcess
    <2>3. ~(c >= cl.next)
      BY <2>2 DEF HonestInv, FreshInv
    <2> QED  BY <2>1, <2>3
  <1>4. ASSUME NEW q, NEW n, srv' = [srv EXCEPT !.chan[c] = q, !.out = Moved(@, n)]
        PROVE  srv'.held = srv.held /\ srv'.chan = [srv.chan EXCEPT ![c] = q] /\ srv'.chan[c] = q
    <2> DEFINE x == [srv.chan EXCEPT ![c] = q]
    <2>1. srv' = [srv EXCEPT !.chan = x, !.out = Moved(srv.out, n)]
      BY <1>4
    <2>2. x[c] = q
      BY DEF HonestInv, RecordInv
    <2> HIDE DEF x
    <2>3. srv'.held = srv.held /\ srv'.chan = x
      BY <1>1, <2>1 DEF ServerShaped
    <2> QED  BY <2>2, <2>3 DEF x
  <1>5. Shrinks(up, up')
    BY <1>0 DEF Shrinks
  <1>6. Commanding /\ c = ch.id => /\ AskInv /\ OnceInv /\ SpokenInv /\ TellInv /\ p = Process
                                   /\ p.kind = "cmd"
    BY <1>2 DEF HonestInv, CommandInv, TellInv, Process
  <1>7. ASSUME NEW q, NEW ms, \E T : ms \in Seq(T), \A j \in 1..Len(ms) : ms[j].c = c, Says(ms),
               NEW n, srv' = [srv EXCEPT !.chan[c] = q, !.out = Moved(@, n)], ProcessShaped(q),
               Commanding /\ c = ch.id => AskInv' /\ OnceInv' /\ SpokenInv' /\ TellInv'
        PROVE  HonestInv'
    <2>1. srv'.held = srv.held /\ srv'.chan = [srv.chan EXCEPT ![c] = q]
      BY <1>4, <1>7
    <2>2. Shrinks(srv.held, srv'.held)
      BY <2>1 DEF Shrinks
    <2> QED  BY <1>0, <1>3, <1>5, <1>7, <2>1, <2>2, ChannelBase
  <1>8. <<>> \in Seq({}) /\ \A j \in 1..Len(<<>>) : FALSE
    OBVIOUS
  <1>9. ASSUME NEW q, NEW ms, Speaks(c, q, ms), ProcessShaped(q), p.kind # "cmd",
               \E T : ms \in Seq(T), \A j \in 1..Len(ms) : ms[j].c = c
        PROVE  HonestInv'
    <2> DEFINE sent == IF q.closed THEN <<>> ELSE ms
    <2>1. Says(sent) /\ srv' = [srv EXCEPT !.chan[c] = q, !.out = Moved(@, Len(sent))]
      BY <1>9 DEF Speaks
    <2>2. (\E T : sent \in Seq(T)) /\ \A j \in 1..Len(sent) : sent[j].c = c
      BY <1>8, <1>9
    <2> HIDE DEF sent
    <2> QED  BY <1>6, <1>7, <1>9, <2>1, <2>2
  <1>10. CASE CommandSays(c)
    <2> DEFINE q == [p EXCEPT !.room = @ - 1, !.said = @ + 1]
               m == M("data", c, c)
               ms == <<m>>
               sent == IF q.closed THEN <<>> ELSE ms
    <2>1. /\ Says(sent) /\ srv' = [srv EXCEPT !.chan[c] = q, !.out = Moved(@, Len(sent))]
          /\ p.kind = "cmd" /\ p.said \in {0, 1}
      BY <1>10 DEF CommandSays, Speaks
    <2>a. q = [p EXCEPT !.room = p.room - 1, !.said = p.said + 1]
      OBVIOUS
    <2>b. m.k = "data" /\ m.c = c /\ m.v = c
      BY DEF M
    <2> HIDE DEF p, q, m
    <2>2. ProcessShaped(q) /\ q.kind = p.kind /\ q.closed = p.closed /\ q.said = p.said + 1
      BY <1>1, <2>a DEF ProcessShaped
    <2>3. ms \in Seq({m}) /\ 1 \in 1..Len(ms) /\ (\A j \in 1..Len(ms) : j = 1) /\ ms[1] = m
      OBVIOUS
    <2>4. (\E T : sent \in Seq(T)) /\ \A j \in 1..Len(sent) : sent[j].c = c
      <3> HIDE DEF ms
      <3> QED  BY <1>8, <2>3, <2>b
    <2>5. ASSUME Commanding, c = ch.id PROVE AskInv' /\ OnceInv' /\ SpokenInv' /\ TellInv'
      <3>1. AskInv /\ OnceInv /\ SpokenInv /\ TellInv /\ p = Process
        BY <1>6, <2>5
      <3>2. srv'.held = srv.held /\ Process' = q
        BY <1>0, <1>4, <2>1, <2>5 DEF Process
      <3>3. ~p.closed
        BY <2>1, <2>5, <3>1, RunningOn
      <3>4. sent = ms /\ Says(ms)
        BY <2>1, <2>2, <3>3
      <3> HIDE DEF ms, sent
      <3>5. Joined(down, srv.out, ms, down')
        BY <2>3, <3>4, ServerSays
      <3>6. /\ ch.id \in Ids /\ Process.kind = "cmd" /\ Process'.kind = "cmd" /\ ~Process'.closed
            /\ Process.said \in {0, 1} /\ Process'.said = Process.said + 1
        BY <2>1, <2>2, <2>5, <3>1, <3>2, <3>3
      <3>7. ms[1].c = ch.id /\ ms[1].k = "data" /\ ms[1].v = ch.id
        BY <2>3, <2>5, <2>b
      <3> QED  BY <1>0, <2>3, <3>1, <3>2, <3>5, <3>6, <3>7, SaysOwn
    <2> HIDE DEF sent
    <2> QED  BY <1>7, <2>1, <2>2, <2>4, <2>5
  <1>11. CASE ProcessEnds(c)
    <2>1. PICK code :
             /\ Says(IF p.closed THEN <<>> ELSE <<M("exit", c, code), M("eof", c, 0), M("close", c, 0)>>)
             /\ srv' = [srv EXCEPT !.chan[c] = [Gone EXCEPT !.code = code],
                                   !.out = Moved(@, IF p.closed THEN 0 ELSE 3)]
      BY <1>11 DEF ProcessEnds
    <2> DEFINE x == M("exit", c, code)
               y == M("eof", c, 0)
               z == M("close", c, 0)
               ms == <<x, y, z>>
               sent == IF p.closed THEN <<>> ELSE ms
               n == IF p.closed THEN 0 ELSE 3
               q == [Gone EXCEPT !.code = code]
    <2>2. /\ x.c = c /\ y.c = c /\ z.c = c
          /\ x.k = "exit" /\ x.v = code /\ y.k = "eof" /\ z.k = "close"
      BY DEF M
    <2>3. Says(sent) /\ srv' = [srv EXCEPT !.chan[c] = q, !.out = Moved(@, n)]
      BY <2>1
    <2>4. ProcessShaped(q) /\ q.kind = "dead" /\ q.closed = TRUE /\ q.code = code
      BY <1>1, ProcessShapes
    <2>5. p.kind = "cmd" => p.said = 2
      BY <1>11 DEF ProcessEnds
    <2> HIDE DEF p, q, n, x, y, z
    <2>6. ms \in Seq({x, y, z}) /\ Len(ms) = 3 /\ ms[1] = x /\ ms[2] = y /\ ms[3] = z
      OBVIOUS
    <2> HIDE DEF ms
    <2>7. \A j \in 1..Len(ms) : j = 1 \/ j = 2 \/ j = 3
      BY <2>6
    <2>8. \A j \in 1..Len(ms) : ms[j].c = c /\ (j # 1 => ms[j].k \in {"eof", "close"})
      BY <2>2, <2>6, <2>7
    <2>9. (\E T : sent \in Seq(T)) /\ \A j \in 1..Len(sent) : sent[j].c = c
      BY <1>8, <2>6, <2>8
    <2>10. ASSUME Commanding, c = ch.id PROVE AskInv' /\ OnceInv' /\ SpokenInv' /\ TellInv'
      <3>1. AskInv /\ OnceInv /\ SpokenInv /\ TellInv /\ p = Process /\ p.kind = "cmd"
        BY <1>6, <2>10
      <3>2. srv'.held = srv.held /\ Process' = q
        BY <1>0, <1>4, <2>3, <2>10 DEF Process
      <3>3. ~p.closed
        BY <2>10, <3>1, RunningOn
      <3>4. Says(ms)
        BY <2>3, <3>3
      <3> HIDE DEF sent
      <3>5. Joined(down, srv.out, ms, down')
        BY <2>6, <3>4, ServerSays
      <3>6. /\ ch.id \in Ids /\ Process.kind = "cmd" /\ Process.said = 2
            /\ Process'.kind = "dead" /\ Process'.closed
        BY <2>4, <2>5, <2>10, <3>1, <3>2
      <3>7. 1 \in 1..Len(ms) /\ ms[1].c = ch.id /\ ms[1].k = "exit" /\ ms[1].v = Process'.code
        BY <2>2, <2>4, <2>6, <2>10, <3>2
      <3> QED  BY <1>0, <2>8, <3>1, <3>2, <3>5, <3>6, <3>7, EndsOwn
    <2> HIDE DEF sent
    <2> QED  BY <1>7, <2>3, <2>4, <2>9, <2>10
  <1>12. CASE CatServes(c)
    <2> DEFINE q == [p EXCEPT !.inbox = Tail(@), !.said = @ + 1]
               m == M("adjust", c, 1)
    <2>1. Speaks(c, q, <<m>>) /\ p.kind # "cmd"
      BY <1>12 DEF CatServes
    <2>2. m.c = c
      BY DEF M
    <2>a. q = [p EXCEPT !.inbox = Tail(p.inbox), !.said = p.said + 1]
      OBVIOUS
    <2> HIDE DEF p, q, m
    <2>3. ProcessShaped(q)
      BY <1>1, <2>a DEF ProcessShaped
    <2> DEFINE ms == <<m>>
    <2>4. ms \in Seq({m}) /\ \A j \in 1..Len(ms) : ms[j] = m
      OBVIOUS
    <2>5. Speaks(c, q, ms)
      BY <2>1
    <2> HIDE DEF ms
    <2> QED  BY <1>9, <2>1, <2>2, <2>3, <2>4, <2>5
  <1>13. ASSUME NEW code \in {0, 1}, SftpServes(c, code) PROVE HonestInv'
    <2> DEFINE r == IF p.closed THEN p.room ELSE p.room - 1
               q == [p EXCEPT !.inbox = Tail(@), !.room = IF p.closed THEN @ ELSE @ - 1]
    <2>1. PICK v : Speaks(c, q, <<M("adjust", c, 1), M("data", c, v)>>) /\ p.kind # "cmd"
      BY <1>13 DEF SftpServes
    <2> DEFINE m == M("adjust", c, 1)
               k == M("data", c, v)
    <2>2. m.c = c /\ k.c = c
      BY DEF M
    <2>a. q = [p EXCEPT !.inbox = Tail(p.inbox), !.room = r]
      OBVIOUS
    <2>5. Speaks(c, q, <<m, k>>)
      BY <2>1
    <2> HIDE DEF p, q, r, m, k
    <2>3. ProcessShaped(q)
      BY <1>1, <2>a DEF ProcessShaped
    <2> DEFINE ms == <<m, k>>
    <2>4. ms \in Seq({m, k}) /\ Len(ms) = 2 /\ ms[1] = m /\ ms[2] = k
      OBVIOUS
    <2>6. Speaks(c, q, ms)
      BY <2>5
    <2> HIDE DEF ms
    <2>7. \A j \in 1..Len(ms) : ms[j].c = c
      BY <2>2, <2>4
    <2> QED  BY SMTT(30), <1>9, <2>1, <2>3, <2>4, <2>6, <2>7
  <1> QED  BY SMTT(30), <1>10, <1>11, <1>12, <1>13
--------------------------------------------------------------------------------
(* What a command's verdict rests on. *)

\* The session begins with nothing but the server's KEXINIT on its way.
LEMMA HonestStarts == SshInit => HonestInv
  <1> SUFFICES ASSUME SshInit PROVE HonestInv
    OBVIOUS
  <1>0. PICK o \in Offers : /\ down = Sealed(New, Kexinit(o))
                            /\ srv = [NewServer EXCEPT !.out = Moved(New, Len(Kexinit(o)))]
    BY DEF SshInit
  <1>1. /\ cl.next = 1 /\ up = <<>> /\ op = NoOp /\ ch = NoChannel
        /\ srv.held = <<>> /\ srv.chan = [i \in Ids |-> NoProcess]
    BY <1>0 DEF SshInit, Closed, NewServer
  <1>2. <<>> \in Seq({}) /\ \A i \in 1..Len(<<>>) : FALSE
    OBVIOUS
  <1>3. RecordInv
    <2>1. OpShaped(NoOp) /\ ChShaped(NoChannel) /\ ProcessShaped(NoProcess)
      BY DEF OpShaped, NoOp, ChShaped, NoChannel, ProcessShaped, NoProcess
    <2>2. srv.chan = [c \in Ids |-> srv.chan[c]] /\ \A c \in Ids : srv.chan[c] = NoProcess
      BY <1>1
    <2> QED  BY <1>1, <1>2, <2>1, <2>2 DEF RecordInv
  <1>4. OpInv
    BY <1>1 DEF OpInv, OpSound, NoOp
  <1>5. \A i \in 1..Len(down) : down[i].m.c = 0
    <2> DEFINE a == M("kexinit", 0, o)
               b == M("guess", 0, 0)
               ms == Kexinit(o)
               x == <<a>>
               y == IF o.guess THEN <<b>> ELSE <<>>
               S == {a, b}
    <2>1. ms = x \o y
      BY DEF Kexinit
    <2>2. a.c = 0 /\ b.c = 0
      BY DEF M
    <2> HIDE DEF a, b
    <2>3. x \in Seq(S) /\ y \in Seq(S) /\ \A s \in S : s.c = 0
      <3>1. <<a>> \in Seq(S) /\ <<b>> \in Seq(S) /\ <<>> \in Seq(S)
        OBVIOUS
      <3> QED  BY <2>2, <3>1
    <2> HIDE DEF x, y, S
    <2>4. ms \in Seq(S)
      BY <2>1, <2>3
    <2> HIDE DEF ms
    <2>5. DOMAIN ms = 1..Len(ms) /\ Len(ms) \in Nat /\ \A i \in 1..Len(ms) : ms[i].c = 0
      BY <2>3, <2>4
    <2> DEFINE e == Sealed(New, ms)
    <2>6. e = [i \in 1..Len(ms) |-> [m |-> ms[i], seal |-> Seal(Moved(New, i - 1))]]
      BY <2>5 DEF Sealed
    <2>7. Len(e) = Len(ms) /\ \A i \in 1..Len(ms) : e[i].m = ms[i]
      BY <2>5, <2>6
    <2>8. down = e
      BY <1>0 DEF ms
    <2> HIDE DEF e
    <2> QED  BY <2>5, <2>7, <2>8
  <1>6. FreshInv
    <2>1. ch.id = 0
      BY <1>1 DEF NoChannel
    <2> QED  BY <1>1, <1>2, <1>5, <2>1 DEF FreshInv, Given
  <1>7. CommandInv
    BY <1>1 DEF CommandInv, Commanding, NoOp
  <1> QED  BY <1>3, <1>4, <1>6, <1>7 DEF HonestInv

LEMMA StillHonest ==
    ASSUME SshInv, HonestInv, UNCHANGED sshVars
    PROVE  HonestInv'
  <1>1. cl' = cl /\ ch' = ch /\ up' = up /\ down' = down /\ srv' = srv /\ op' = op
    BY DEF sshVars
  <1>2. OpShaped(op) /\ OpSound(op) /\ ChShaped(ch)
    BY DEF HonestInv, RecordInv, OpInv
  <1>3. OpInv' /\ (Commanding' => Commanding) /\ Shrinks(down, down')
    BY <1>1, <1>2 DEF OpInv, OpSound, Commanding, Shrinks
  <1>4. Sends(<<>>) /\ (\E T : <<>> \in Seq(T)) /\ \A j \in 1..Len(<<>>) : FALSE
    BY <1>1, NothingSent, AloofOnes DEF Sends, Aloof
  <1> QED  BY <1>1, <1>2, <1>3, <1>4, ClientStep

\* What is known of a command and its channel, from its start on (run_inner(),
\* Channel::open() and Channel::poll() against the server's side of both): the
\* number is its own, it was asked for once, its output comes before its exit
\* status and that before the close, and each unit of output was received or
\* is on its way.
THEOREM HonestInvariant == SshSpec => [](SshInv /\ HonestInv)
  <1>1. SshInit => HonestInv
    BY HonestStarts
  <1>2. SshInv /\ HonestInv /\ [SshNext]_sshVars => HonestInv'
    <2> SUFFICES ASSUME SshInv, HonestInv, [SshNext]_sshVars PROVE HonestInv'
      OBVIOUS
    <2>1. CASE Transport
      <3>1. CASE OpenRefused \/ Break
        BY <3>1, DiesHonest DEF OpenRefused, Break
      <3>2. CASE ReadKexinit \/ DropGuess \/ ReadGroup \/ ReadReply \/ ReadNewkeys
        BY <3>2, ExchangeHonest
      <3>3. CASE ReadNoise \/ ReadAccept \/ ReadVerdict
        BY <3>3, LoginHonest
      <3> QED  BY <2>1, <3>1, <3>2, <3>3, OpenHonest DEF Transport
    <2>2. CASE Channel
      <3>1. CASE (\E k \in Kinds : Start(k)) \/ Fallback
        BY <3>1, BeginHonest
      <3>2. CASE \/ OpenFailed \/ Marked \/ Input \/ Exited
                 \/ SftpInit \/ SftpOpen \/ SftpHandle \/ SftpWrite \/ SftpStatus \/ SftpClose
                 \/ SftpClosed \/ Abandon \/ Abandoned \/ Finish \/ Finished \/ CatWrite
                 \/ CancelSeen \/ TimesOut
        BY <3>2, OperationHonest
      <3> QED
        BY <2>2, <3>1, <3>2, PollHonest, CancelHonest, OpenedHonest, AnsweredHonest DEF Channel
    <2>3. CASE Server
      <3>1. ASSUME NEW c \in Ids,
                   \/ CommandSays(c) \/ ProcessEnds(c) \/ CatServes(c)
                   \/ (\E code \in {0, 1} : SftpServes(c, code))
            PROVE  HonestInv'
        BY <3>1, ProcessesHonest
      <3> QED
        BY <2>3, <3>1, ServerKexHonest, ServerAuthHonest, ServerExtraHonest, ServerHoldsHonest,
           ServerHandlesHonest DEF Server
    <2>4. CASE UNCHANGED sshVars
      BY <2>4, StillHonest
    <2> QED  BY <2>1, <2>2, <2>3, <2>4 DEF SshNext
  <1> QED  BY <1>1, <1>2, SshInvariant, PTL DEF SshSpec

\* No step but the end of its channel reports a command to have succeeded.
LEMMA OnlyExitSucceeds ==
    ASSUME HonestInv, [SshNext]_sshVars, ~Exited, op.kind # "upload", op.res # "ok"
    PROVE  op'.res # "ok"
  <1>0. OpShaped(op) /\ OpSound(op)
    BY DEF HonestInv, RecordInv, OpInv
  <1>1. op.via = "none"
    BY <1>0 DEF OpSound
  <1>2. /\ op.pc \notin {"subsystem", "init", "version", "handle", "closing", "abandoning", "abandon",
                         "eof", "finish", "fallback"}
        /\ op.pc # "writing" /\ op.pc # "exit"
    BY <1>0, <1>1 DEF OpSound
  <1>3. /\ Lost = Done("failed") /\ Done("failed").res = "failed" /\ NoOp.res = "none"
        /\ \A p : [op EXCEPT !.pc = p].res = op.res
    BY <1>1, OperationShapes DEF Lost, NoOp
  <1>4. Dies => op'.res # "ok"
    BY <1>3 DEF Dies
  <1>5. op' = op => op'.res # "ok"
    OBVIOUS
  <1>6. ASSUME NEW ms, Goes(ms, Lost) PROVE op'.res # "ok"
    BY <1>3, <1>6 DEF Goes
  <1>7. ASSUME NEW ms, NEW p, Goes(ms, [op EXCEPT !.pc = p]) PROVE op'.res # "ok"
    BY <1>3, <1>7 DEF Goes
  <1>8. CASE Transport
    <2>1. op' = op \/ Dies
      BY <1>8 DEF Transport, Open, OpenRefused, ReadKexinit, DropGuess, ReadGroup, ReadReply, ReadNewkeys,
         ReadNoise, ReadAccept, ReadVerdict, NextMethod, KeyUnreadable, Aside, Break
    <2> QED  BY <1>4, <1>5, <2>1
  <1>9. CASE Channel
    <2>1. CASE Poll
      BY <1>5, <2>1 DEF Poll
    <2>2. CASE Cancel
      <3>1. op' = [op EXCEPT !.cancel = TRUE]
        BY <2>2 DEF Cancel
      <3> QED  BY <1>0, <3>1 DEF OpShaped
    <2>3. CASE CancelSeen
      <3>1. Goes(Hang, Lost) \/ Goes(<<>>, Lost)
        BY <1>1, <1>2, <2>3 DEF CancelSeen
      <3> QED  BY <1>6, <3>1
    <2>4. CASE TimesOut
      <3>1. Goes(Hang, Lost) \/ Goes(<<>>, Lost)
        BY <1>2, <2>4 DEF TimesOut
      <3> QED  BY <1>6, <3>1
    <2>5. ASSUME NEW k \in Kinds, Start(k) PROVE op'.res # "ok"
      <3> DEFINE v == IF k = "upload" THEN "sftp" ELSE "none"
                 x == [NoOp EXCEPT !.n = op.n + 1, !.kind = k, !.pc = "opening", !.via = v]
      <3>1. op' = x
        BY <2>5 DEF Start
      <3>2. OpShaped(NoOp)
        BY DEF NoOp, OpShaped
      <3>3. x.res = NoOp.res
        BY <3>2 DEF OpShaped
      <3> QED  BY <1>3, <3>1, <3>3
    <2>6. CASE Opened
      <3>1. \E p : Goes(<<M(p, ch.id, op.via)>>, [op EXCEPT !.pc = p])
        BY <2>6 DEF Opened
      <3> QED  BY <1>7, <3>1
    <2>7. CASE Answered
      <3>1. \/ Goes(<<>>, Lost) \/ Goes(<<M("exec", ch.id, op.via)>>, [op EXCEPT !.pc = "exec"])
            \/ Goes(<<>>, [op EXCEPT !.pc = "init"])
            \/ Goes(<<>>, [op EXCEPT !.pc = IF op.via = "cat" THEN "writing"
                                            ELSE IF op.kind = "pty" THEN "marker" ELSE "input"])
        BY <2>7 DEF Answered
      <3> QED  BY <1>6, <1>7, <3>1
    <2>8. CASE OpenFailed
      BY <1>6, <2>8 DEF OpenFailed
    <2>9. CASE Marked
      BY <1>7, <2>9 DEF Marked
    <2>10. CASE Input
      <3>1. Goes(<<>>, Lost) \/ Goes(Unit(0) \o Eof, [op EXCEPT !.pc = "output"])
        BY <2>10 DEF Input
      <3> QED  BY <1>6, <1>7, <3>1
    <2>11. ~(\/ SftpInit \/ SftpOpen \/ SftpHandle \/ SftpWrite \/ SftpStatus \/ SftpClose \/ SftpClosed
             \/ Abandon \/ Abandoned \/ Finish \/ Finished \/ Fallback \/ CatWrite)
      BY <1>2 DEF SftpInit, SftpOpen, SftpHandle, SftpWrite, SftpStatus, SftpClose, SftpClosed,
         Abandon, Abandoned, Finish, Finished, Fallback, CatWrite, At
    <2> QED
      BY <1>9, <2>1, <2>2, <2>3, <2>4, <2>5, <2>6, <2>7, <2>8, <2>9, <2>10, <2>11 DEF Channel
  <1>10. CASE Server
    <2>1. op' = op
      BY <1>10 DEF Server, ServerKex, ServerAuth, ServerExtra, ServerHolds, ServerHandles,
         CommandSays, ProcessEnds, CatServes, SftpServes, Client
    <2> QED  BY SMTT(30), <1>5, <2>1
  <1>11. CASE UNCHANGED sshVars
    BY <1>5, <1>11 DEF sshVars
  <1> QED  BY <1>8, <1>9, <1>10, <1>11 DEF SshNext

\* When a command's channel has ended, its status and all its output are in.
LEMMA ExitIsHonest ==
    ASSUME HonestInv, Exited, op'.res = "ok", op.kind # "upload"
    PROVE  srv.chan[ch.id].code = 0 /\ ch.out = <<ch.id, ch.id>>
  <1>1. OpSound(op)
    BY DEF HonestInv, OpInv
  <1>2. op.via = "none" /\ op.pc # "exit"
    BY <1>1 DEF OpSound
  <1>3. op.pc = "output" /\ ~Waiting
    BY <1>2 DEF Exited, At
  <1>4. ch.closeIn
    BY <1>3 DEF Waiting
  <1>5. TellInv
    BY <1>2, <1>3 DEF HonestInv, CommandInv, Commanding
  <1>6. Over /\ Told(2)
    BY <1>4, <1>5 DEF TellInv
  <1>7. ~Exiting
    BY <1>4, <1>5 DEF TellInv, Own, Exiting, Mine
  <1>8. ch.exit = Process.code /\ Coming(down, ch.id, 0)
    BY <1>5, <1>6, <1>7 DEF TellInv
  <1>9. \A res : Done(res).res = res
    BY OperationShapes
  <1>10. ch.exit = 0
    <2>1. op' = Done(IF ch.exit = 0 THEN "ok" ELSE "failed")
      BY DEF Exited, Goes
    <2>2. op'.res = IF ch.exit = 0 THEN "ok" ELSE "failed"
      BY <1>9, <2>1
    <2> QED  BY <2>2
  <1>11. PICK a \in 0..2, b \in 0..2 : a + b = 2 /\ Received(a) /\ Coming(down, ch.id, b)
    BY <1>6 DEF Told
  <1>12. b = 0
    <2>1. \A i \in 1..Len(down) : ~Output(down, i, ch.id)
      BY <1>8 DEF Coming
    <2> QED  BY <1>11, <2>1 DEF Coming
  <1>13. a = 2
    BY <1>11, <1>12
  <1> QED  BY <1>8, <1>10, <1>11, <1>13 DEF Received, Process

\* A command that is reported to have succeeded did (the exit status run()
\* returns is its own), and the output reported is its own and all of it
\* (Channel::poll() and dispatch_payload() by the number of the channel),
\* whatever earlier operations left on the session, for every number of
\* operations, window and key exchange.
THEOREM ResultsAreHonest == SshSpec => ResultHonest
  <1>1. HonestInv /\ [SshNext]_sshVars =>
          [(op'.res = "ok" /\ op.res # "ok" /\ op.kind # "upload") =>
             srv.chan[ch.id].code = 0 /\ ch.out = <<ch.id, ch.id>>]_sshVars
    <2> SUFFICES ASSUME HonestInv, [SshNext]_sshVars, op'.res = "ok", op.res # "ok", op.kind # "upload"
                 PROVE  srv.chan[ch.id].code = 0 /\ ch.out = <<ch.id, ch.id>>
      OBVIOUS
    <2>1. Exited
      BY OnlyExitSucceeds
    <2> QED  BY <2>1, ExitIsHonest
  <1> QED  BY <1>1, HonestInvariant, PTL DEF SshSpec, ResultHonest
================================================================================
