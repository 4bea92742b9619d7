------------------------------ MODULE SeedRng ------------------------------
(***************************************************************************)
(* The counter RNG of scripts/gen_history_crypto: SHA-256 of a seed and a  *)
(* counter, handed out in reads of any size.  The golden vectors are only  *)
(* golden if a key depends on the seed alone, and not on how the ML-KEM    *)
(* library happens to split its reads.  A byte is named by the block it    *)
(* comes from (the counter that was hashed) and its place in it.           *)
(***************************************************************************)
EXTENDS Naturals, Sequences

CONSTANTS
    BlockLen,   \* bytes of a SHA-256 block (32)
    MaxRead,    \* bound: bytes of one read
    MaxOut      \* bound: bytes read in all

ASSUME RngAssumption == BlockLen \in Nat \ {0} /\ MaxRead \in Nat /\ MaxOut \in Nat

VARIABLES
    block,      \* the counter whose hash the buffer holds
    off,        \* the next byte of the buffer
    counter,    \* the next counter to be hashed
    want,       \* bytes the read under way still wants
    out         \* every byte handed out, in order

vars == <<block, off, counter, want, out>>

NoBlock == BlockLen + MaxOut + 1     \* the buffer of zeros before the first refill

TypeOK ==
    /\ block \in Nat /\ off \in 0 .. BlockLen /\ counter \in Nat
    /\ want \in 0 .. MaxRead
    /\ out \in Seq(Nat \X (0 .. BlockLen - 1))

Init == block = NoBlock /\ off = BlockLen /\ counter = 0 /\ want = 0 /\ out = <<>>

(* try_fill_bytes is called; try_next_u32 and try_next_u64 call it too. *)
Fill(n) ==
    /\ want = 0 /\ Len(out) + n <= MaxOut
    /\ want' = n
    /\ UNCHANGED <<block, off, counter, out>>

UsedUp == off >= BlockLen

(* Mutant: a refill in the middle of a read goes on where the read was. *)
RefilledAtStale == IF counter = 0 THEN 0 ELSE 1

RefilledAt == 0

NextCounter == counter + 1

(* One turn of the loop: refill if the block is used up, then take a byte.  *)
TakeByte ==
    LET fresh == UsedUp
        from == IF fresh THEN counter ELSE block
        place == IF fresh THEN RefilledAt ELSE off
    IN  /\ want > 0
        /\ block' = from
        /\ counter' = IF fresh THEN NextCounter ELSE counter
        /\ out' = Append(out, <<from, place>>)
        /\ off' = place + 1
        /\ want' = want - 1

Next == TakeByte \/ \E n \in 1 .. MaxRead : Fill(n)

Spec == Init /\ [][Next]_vars

-----------------------------------------------------------------------------
(* However the reads are split, the bytes handed out are the hashes of      *)
(* counters 0, 1, 2, ... laid end to end: byte k comes from the block and   *)
(* the place that k alone decides, none is skipped, repeated or left over   *)
(* from a block that was used up.                                           *)
OutIsTheStream ==
    \A k \in DOMAIN out : out[k][1] * BlockLen + out[k][2] = k - 1

(* The state of the generator is a place in that stream: its counter and    *)
(* offset say how many bytes it has handed out, and nothing else does.      *)
Position ==
    /\ Len(out) + BlockLen = BlockLen * counter + off
    /\ counter > 0 => block = counter - 1
    /\ counter = 0 => off = BlockLen

=============================================================================
