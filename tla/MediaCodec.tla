----------------------------- MODULE MediaCodec -----------------------------
(***************************************************************************)
(* The coding of the telephone's media stream in gateway/src/twilio.rs: a  *)
(* PCM16 sample is sent as a byte of mu-law, and a byte that arrives is    *)
(* read back as a sample.                                                  *)
(***************************************************************************)
EXTENDS Integers, Sequences

CONSTANTS
  Samples,   \* the samples that are sent
  MaxLength  \* bound on their number

VARIABLES
  said,  \* the samples sent
  line,  \* their codes on the way
  heard  \* the samples that were read

vars == <<said, line, heard>>

-----------------------------------------------------------------------------
BIAS == 132
CLIP == 32635
Magnitude(s) == IF s < 0 THEN -s ELSE s
Clipped(s) == IF Magnitude(s) < CLIP THEN Magnitude(s) ELSE CLIP

(* leading_zeros of a positive i32; sample | 0xff.                         *)
LeadingZeros(n) == 31 - CHOOSE k \in 0..30 : 2^k <= n /\ n < 2^(k + 1)
Or255(n) == 256 * (n \div 256) + 255
Clamp(n) == IF n < 0 THEN 0 ELSE IF n > 7 THEN 7 ELSE n

(* The byte is [sign, exponent, mantissa]; its bits are sent inverted.     *)
LinearToUlaw(s) ==
  LET biased == Clipped(s) + BIAS
      exponent == Clamp(7 - LeadingZeros(Or255(biased)))
  IN [sign |-> s < 0, exponent |-> exponent,
      mantissa |-> (biased \div 2^(exponent + 3)) % 16]

UlawToLinear(b) ==
  LET level == (8 * b.mantissa + BIAS) * 2^b.exponent - BIAS
  IN IF b.sign THEN -level ELSE level

-----------------------------------------------------------------------------
Init == said = <<>> /\ line = <<>> /\ heard = <<>>

(* pcm16_to_ulaw, for one sample of a frame that is sent. *)
Send(sample) ==
  /\ Len(said) < MaxLength
  /\ said' = Append(said, sample)
  /\ line' = Append(line, LinearToUlaw(sample))
  /\ UNCHANGED heard

(* ulaw_to_pcm16, as the far end, or decode_media, reads a byte. *)
Receive ==
  /\ line # <<>>
  /\ heard' = Append(heard, UlawToLinear(Head(line)))
  /\ line' = Tail(line)
  /\ UNCHANGED said

Next == Receive \/ \E sample \in Samples : Send(sample)

Spec == Init /\ [][Next]_vars

-----------------------------------------------------------------------------
(* "returns mu-law TTS audio": mu-law divides the biased magnitudes from   *)
(* 2^(e + 7) to 2^(e + 8) into 16 levels, and a sample is heard as one     *)
(* that lies within the width of a level of it.                            *)
Segment(s) == CHOOSE e \in 0..7 : LET m == Clipped(s) + BIAS
                                  IN 2^(e + 7) <= m /\ m < 2^(e + 8)
HeardAsSent ==
  \A i \in 1..Len(heard) : Magnitude(heard[i] - said[i]) <= 2^(Segment(said[i]) + 3)
=============================================================================
