----------------------------- MODULE AudioRing -----------------------------
(***************************************************************************)
(* The guest's sound on its way to the host: embed/embedaudio.c (producer, *)
(* a mixer tick of QEMU's main loop) and player/src/audio.rs (consumer,    *)
(* the host's audio thread) share a ring without a lock.                   *)
(*                                                                         *)
(* Everything is counted in 16-bit samples.  A frame is FrameLen samples;  *)
(* the masked index arithmetic of both sides, over a size that is a power  *)
(* of two, is written out as one wrap-around, since no index moves by more *)
(* than the size.  Each load of the other side's index is an action of its *)
(* own.  The main loop's wall clock is the backlog it has built up: owed   *)
(* is what wall time says the guest should have played, less what was      *)
(* taken from it.  A ring is attached (a player without an output device   *)
(* has no audio device at all); the statistics are left out.               *)
(***************************************************************************)
EXTENDS Integers

CONSTANTS
  FrameLen,     \* bytes_per_frame
  Size,         \* ring_size
  Cushion,      \* out.buffer-length
  Slack,        \* SLACK_US, at least a frame
  CatchUp,      \* MAX_CATCHUP_US
  MaxStep,      \* bound of the model: wall time passes at most so much at once
  MaxWritten    \* bound of the model: samples ever written

WholeFrames(n) == n - (n % FrameLen)

(* init_out: the cushion is at most half of the ring. *)
Target == IF Cushion > Size \div 2 THEN WholeFrames(Size \div 2) ELSE Cushion

ASSUME AudioAssumption ==
  /\ FrameLen \in Nat \ {0} /\ Size \in Nat \ {0} /\ Cushion \in Nat
  /\ Size % FrameLen = 0 /\ Cushion % FrameLen = 0
  /\ Slack \in Nat /\ Slack >= FrameLen
  /\ CatchUp \in Nat /\ MaxStep \in Nat /\ MaxWritten \in Nat

(* At 48 kHz in stereo the backlog that is kept, two seconds, is 384000    *)
(* bytes, and the cushion at most half of the ring of 65536.               *)
ASSUME CatchUpAssumption == CatchUp >= Target

VARIABLES
  \* the ring
  buf,          \* ring_base: the number of the sample in each slot
  wr, rd,       \* ring_wr, ring_rd
  \* the producer: HWVoiceOut, EmbedVoiceOut and the locals of a tick
  enabled,      \* the voice is enabled
  owed,         \* wall time since start_ticks, less bytes_sent
  live,         \* samples in the mix buffer (external)
  audioPc,      \* where the tick is
  due,          \* due, in get_buffer_out
  amount,       \* n, then pending
  drop,         \* drop, then pending_drop
  \* history
  written,      \* samples put into the ring
  popped,       \* samples the consumer took out of it
  fed,          \* the guest gave what get_free asked for in the last tick
  drained       \* samples taken out since then, counted up to Target

audioRing     == <<buf, wr, rd>>
producer == <<enabled, owed, live, audioPc, due, amount, drop>>
history  == <<written, popped, fed, drained>>
audioVars     == <<audioRing, producer, history>>

NoSample == -1
AudioSlots == 0..Size - 1

(* Sum and difference of two indices, masked. *)
Plus(a, b)  == IF a + b >= Size THEN a + b - Size ELSE a + b
Minus(a, b) == IF a >= b THEN a - b ELSE a - b + Size

(* ring_fill, ring_free, available *)
Fill == Minus(wr, rd)
Free == Size - 1 - Fill

Places == {"idle", "mix", "due", "room", "put"}

AudioTypeOK ==
  /\ buf \in [AudioSlots -> Int] /\ wr \in AudioSlots /\ rd \in AudioSlots
  /\ enabled \in BOOLEAN
  /\ owed \in Nat
  /\ live \in 0..Target
  /\ audioPc \in Places
  /\ due \in Nat /\ amount \in 0..Target
  /\ drop \in BOOLEAN
  /\ written \in Nat /\ popped \in Nat
  /\ fed \in BOOLEAN /\ drained \in 0..Target

AudioInit ==
  /\ buf = [i \in AudioSlots |-> NoSample] /\ wr = 0 /\ rd = 0
  /\ enabled = FALSE /\ owed = 0 /\ live = 0
  /\ audioPc = "idle" /\ due = 0 /\ amount = 0 /\ drop = FALSE
  /\ written = 0 /\ popped = 0 /\ fed = FALSE /\ drained = 0

Less(a, b) == IF a <= b THEN a ELSE b

---------------------------------------------------------------------------
(* enable_out: the wall clock of the voice starts again. *)
EnableOut(on) ==
  /\ audioPc = "idle" /\ enabled # on
  /\ enabled' = on
  /\ owed' = IF on THEN 0 ELSE owed
  /\ fed' = FALSE
  /\ UNCHANGED <<audioRing, live, audioPc, due, amount, drop, written, popped, drained>>

(* wall_due, beyond MAX_CATCHUP: the excess is forgotten. *)
Resynced == Less(owed, CatchUp)

(* take_now: a cushion that lacks more than what is due and the slack      *)
(* brings the clock forward by the difference.                             *)
Charged ==
  LET want  == IF Fill < Target THEN Target - Fill ELSE 0
      first == WholeFrames(Resynced)
  IN  IF want > first + Slack THEN Resynced + (want - first) ELSE Resynced

(* A tick begins: get_free, and the guest's sound card fills up the mix    *)
(* buffer, with less if it has less (external).                            *)
BeginTick(charged) ==
  /\ audioPc = "idle" /\ enabled
  /\ LET free == Less(WholeFrames(Less(charged, CatchUp)), Target)
     IN  /\ \E given \in {n \in 0..Target : n % FrameLen = 0} :
              /\ given = 0 \/ live + given <= free
              /\ live' = live + given
         /\ fed' = (live' >= free)
  /\ owed' = Less(charged, CatchUp)
  /\ drained' = 0
  /\ audioPc' = "mix"
  /\ UNCHANGED <<audioRing, enabled, due, amount, drop, written, popped>>

(* A mutant: a cushion is never refilled ahead of time. *)
GetFreeWithoutCharge == BeginTick(Resynced)

GetFree == BeginTick(Charged)

(* The tick ends when the mix buffer is empty. *)
EndTick ==
  /\ audioPc = "mix" /\ live = 0
  /\ audioPc' = "idle"
  /\ UNCHANGED <<audioRing, enabled, owed, live, due, amount, drop, history>>

(* get_buffer_out, as far as take_now. *)
TakeNow ==
  /\ audioPc = "mix" /\ live > 0
  /\ owed' = Less(Charged, CatchUp)
  /\ due' = WholeFrames(owed')
  /\ audioPc' = "due"
  /\ UNCHANGED <<audioRing, enabled, live, amount, drop, history>>

(* get_buffer_out: how much to take now, and where to put it if trims.     *)
ChooseIf(trims) ==
  /\ audioPc = "due"
  /\ LET n    == Less(live, due)
         room == IF Fill < Target THEN Target - Fill ELSE 0
     IN  IF n = 0
         THEN /\ audioPc' = "idle"
              /\ UNCHANGED <<amount, drop>>
         ELSE /\ audioPc' = "room"
              /\ amount' = IF room > 0 THEN Less(n, room) ELSE n
              /\ drop' = (room = 0 /\ trims)
  /\ due' = 0
  /\ UNCHANGED <<audioRing, enabled, owed, live, history>>

(* A mutant: a cushion that is too large is not trimmed. *)
ChooseWithoutTrim == ChooseIf(due > Slack)

(* At the target, a backlog beyond the slack and a cushion beyond target + *)
(* slack are both discarded.                                               *)
Choose == ChooseIf(due > Slack \/ Fill > Target + Slack)

(* get_buffer_out, given how many samples follow wr free: a stretch of the *)
(* ring, which the mixer then fills, or else the scratch buffer.           *)
ClaimOf(contiguous) ==
  /\ audioPc = "room"
  /\ written + amount <= MaxWritten
  /\ LET m == WholeFrames(Less(amount, contiguous))
     IN  IF ~drop /\ m > 0
         THEN /\ amount' = m
              /\ buf' = [i \in AudioSlots |-> IF i >= wr /\ i < wr + m
                                              THEN written + (i - wr) ELSE buf[i]]
              /\ UNCHANGED drop
         ELSE /\ amount' = WholeFrames(amount)
              /\ drop' = TRUE
              /\ UNCHANGED buf
  /\ audioPc' = "put"
  /\ UNCHANGED <<wr, rd, enabled, owed, live, due, history>>

(* A mutant: the end of the ring is not looked at. *)
ClaimAcrossTheEnd == ClaimOf(Free)

Claim == ClaimOf(Less(Free, Size - wr))

(* put_buffer_out: the clock is charged, and ring data is published at w.  *)
PublishSamples(w) ==
  /\ audioPc = "put"
  /\ owed' = owed - amount
  /\ live' = live - amount
  /\ IF drop THEN UNCHANGED <<wr, written>>
             ELSE wr' = w /\ written' = written + amount
  /\ amount' = 0 /\ drop' = FALSE
  /\ audioPc' = "mix"
  /\ UNCHANGED <<buf, rd, enabled, due, popped, fed, drained>>

Put == PublishSamples(Plus(wr, amount))

---------------------------------------------------------------------------
(* pop_s16: the audio thread wants n samples, whole frames, and gets what  *)
(* there is.                                                               *)
Pop(n) ==
  LET got == Less(Fill, n)
  IN  /\ got > 0
      /\ rd' = Plus(rd, got)
      /\ popped' = popped + got
      /\ drained' = Less(drained + got, Target)
      /\ UNCHANGED <<buf, wr, producer, written, fed>>

(* Wall time passes; the main loop is late by as much as it likes. *)
Wait(d) ==
  /\ enabled
  /\ owed <= CatchUp /\ owed' = owed + d
  /\ UNCHANGED <<audioRing, enabled, live, audioPc, due, amount, drop, history>>

AudioNext ==
  \/ \E on \in BOOLEAN : EnableOut(on)
  \/ GetFree \/ EndTick \/ TakeNow \/ Choose \/ Claim \/ Put
  \/ \E n \in {FrameLen * k : k \in 1..Size \div FrameLen} : Pop(n)
  \/ \E d \in 1..MaxStep : Wait(d)

AudioSpec == AudioInit /\ [][AudioNext]_audioVars

---------------------------------------------------------------------------
(* embedaudio.c 11-13, audio.rs 30-43: whatever the audio thread takes out *)
(* are the samples the producer put in, each once, in their order, also    *)
(* while the mixer writes the next ones and when the ring is full.         *)
InOrder ==
  /\ written = popped + Fill
  /\ \A i \in 0..Fill - 1 : buf[Plus(rd, i)] = popped + i

(* embedaudio.c 16-28: a stall is never queued.  The ring holds at most    *)
(* the cushion and twice the slack, whatever the main loop and the audio   *)
(* thread miss.                                                            *)
LatencyBounded ==
  Fill + (IF audioPc = "put" /\ ~drop THEN amount ELSE 0) <= Target + 2 * Slack

(* embedaudio.c 24-26: a tick refills the cushion.  If the guest delivered *)
(* what it was asked for, the ring holds all of the cushion but the slack  *)
(* (and a part of a frame), less what was played since the tick began.     *)
CushionKept ==
  audioPc = "idle" /\ fed => Fill + drained + Slack + FrameLen > Target
===========================================================================
