------------------------------- MODULE Md5Key -------------------------------
(***************************************************************************)
(* How key and iv are made from the password before a packet is sealed or  *)
(* opened: crypto_derive_key (src/util.c) and md5, over md5_starts,        *)
(* md5_update and md5_finish (src/md5.c).  Their context is one variable   *)
(* on the stack, used again for each digest and never cleared.             *)
(*                                                                         *)
(* A byte is kept as where it comes from.  md5_process mixes a block into  *)
(* the state in a way that depends on every byte before, so the state is   *)
(* kept as the bytes processed so far, and a digest byte as its place and  *)
(* the state it was taken from.                                            *)
(***************************************************************************)
EXTENDS Integers, Sequences

CONSTANTS
    BufferSize,   \* bytes md5_process takes: 64
    LengthSize,   \* bytes of msglen, at the end of the last block: 8
    WordModulus,  \* 2^32: total is two words
    DigestSize,   \* mds: 16
    KeyLen,       \* bytes of the key: 32
    MaxPass       \* bound: length of the password

ASSUME Md5Assumption ==
    /\ LengthSize \in Nat \ {0}
    /\ BufferSize \in Nat
    /\ LengthSize < BufferSize
    /\ WordModulus \in Nat \ {0}
    /\ WordModulus % BufferSize = 0
    /\ WordModulus % 8 = 0
    /\ DigestSize \in 1 .. BufferSize
    /\ KeyLen \in Nat
    /\ MaxPass \in 0 .. (WordModulus - 1)  \* ilen is an int

VARIABLES
    passLen,  \* strlen(pass)
    stage,       \* "derive", "calls", "fill", "blocks" or "done"
    calls,    \* the calls up to the end of this digest
    total,    \* the two words of ctx.total
    state,    \* ctx.state
    buffer,   \* ctx.buffer
    input,    \* what md5_update has still to take of its input
    left,     \* and its place in the buffer
    msglen,   \* md5_finish's length field
    md_buf,   \* the latest digest
    key,      \* the key bytes written so far
    initv,    \* the iv, once md5 has made it
    fed       \* ghost: all that md5_update was given for this digest

keyVars == <<passLen, stage, calls, total, state, buffer, input, left, msglen,
          md_buf, key, initv, fed>>

context == <<total, state, buffer, input, left, fed>>

-----------------------------------------------------------------------------
(* Bytes *)

pass == [i \in 1 .. passLen |-> <<"pass", i>>]

\* What memory holds before it is written.
Stale(size) == [i \in 1 .. size |-> <<"stale", i>>]

\* md5_padding: 0x80 and zeros.
md5_padding(n) == [i \in 1 .. n |-> <<"pad", IF i = 1 THEN 128 ELSE 0>>]

Length(low, high) == [i \in 1 .. LengthSize |-> <<"length", low, high, i>>]

Digest(s) == [i \in 1 .. DigestSize |-> <<"digest", s, i>>]

First(s, n) == SubSeq(s, 1, n)
Rest(s, n)  == SubSeq(s, n + 1, Len(s))

KeyTypeOK ==
    /\ passLen \in 0 .. MaxPass
    /\ stage \in {"derive", "calls", "fill", "blocks", "done"}
    /\ total \in (0 .. (WordModulus - 1)) \X Nat
    /\ Len(state) % BufferSize = 0
    /\ Len(buffer) = BufferSize
    /\ left \in 0 .. (BufferSize - 1)
    /\ Len(msglen) = LengthSize
    /\ Len(md_buf) = DigestSize
    /\ Len(key) \in 0 .. KeyLen

KeyInit ==
    /\ passLen \in 0 .. MaxPass
    /\ stage = "derive"
    /\ calls = <<>>
    /\ total = <<0, 0>>
    /\ state = <<>>
    /\ buffer = Stale(BufferSize)
    /\ input = <<>>
    /\ left = 0
    /\ msglen = Stale(LengthSize)
    /\ md_buf = Stale(DigestSize)
    /\ key = <<>>
    /\ initv = <<>>
    /\ fed = <<>>

-----------------------------------------------------------------------------
(* md5_starts, md5_update *)

\* The context is set up; the buffer keeps what it holds.
md5_starts ==
    /\ total' = <<0, 0>>
    /\ state' = <<>>
    /\ fed' = <<>>
    /\ UNCHANGED <<buffer, input, left>>

md5_process(s, block) == s \o block

\* Variant: the carry into the second word is left out.
Total_NoCarry(n) == <<(total[1] + n) % WordModulus, total[2]>>

\* The bytes taken so far and n more.
Total(n) ==
    LET low == (total[1] + n) % WordModulus
    IN  <<low, IF low < n THEN total[2] + 1 ELSE total[2]>>

\* md5_update is called; with nothing to take it returns at once.
md5_update(data) ==
    /\ calls' = Tail(calls)
    /\ fed' = fed \o data
    /\ IF data = <<>>
         THEN UNCHANGED <<stage, total, input, left>>
         ELSE /\ stage' = "fill"
              /\ total' = Total(Len(data))
              /\ input' = data
              /\ left' = total[1] % BufferSize
    /\ UNCHANGED <<passLen, state, buffer, msglen, md_buf, key, initv>>

\* The buffer with the sequence s written from place n on.
Written(n, s) ==
    [i \in 1 .. BufferSize |->
        IF i \in (n + 1) .. (n + Len(s)) THEN s[i - n] ELSE buffer[i]]

\* Variant: left is not set back to 0.
Fill_KeepsLeft ==
    /\ stage = "fill"
    /\ LET fill == BufferSize - left
           full == Written(left, First(input, fill))
       IN  IF left # 0 /\ Len(input) >= fill
             THEN /\ buffer' = full
                  /\ state' = md5_process(state, full)
                  /\ input' = Rest(input, fill)
             ELSE UNCHANGED <<buffer, state, input>>
    /\ stage' = "blocks"
    /\ UNCHANGED <<passLen, calls, total, left, msglen, md_buf, key, initv, fed>>

\* A block begun by an earlier call is completed in the buffer.
Fill ==
    /\ stage = "fill"
    /\ LET fill == BufferSize - left
           full == Written(left, First(input, fill))
       IN  IF left # 0 /\ Len(input) >= fill
             THEN /\ buffer' = full
                  /\ state' = md5_process(state, full)
                  /\ input' = Rest(input, fill)
                  /\ left' = 0
             ELSE UNCHANGED <<buffer, state, input, left>>
    /\ stage' = "blocks"
    /\ UNCHANGED <<passLen, calls, total, msglen, md_buf, key, initv, fed>>

\* The loop over whole blocks.
ProcessBlock ==
    /\ stage = "blocks"
    /\ Len(input) >= BufferSize
    /\ state' = md5_process(state, First(input, BufferSize))
    /\ input' = Rest(input, BufferSize)
    /\ UNCHANGED <<passLen, stage, calls, total, buffer, left, msglen, md_buf,
                   key, initv, fed>>

\* Variant: the rest is kept at the start of the buffer.
KeepRest_AtStart ==
    /\ stage = "blocks"
    /\ Len(input) < BufferSize
    /\ buffer' = Written(0, input)
    /\ input' = <<>>
    /\ stage' = "calls"
    /\ UNCHANGED <<passLen, calls, total, state, left, msglen, md_buf, key,
                   initv, fed>>

\* What is left waits in the buffer for the next call.
KeepRest ==
    /\ stage = "blocks"
    /\ Len(input) < BufferSize
    /\ buffer' = Written(left, input)
    /\ input' = <<>>
    /\ stage' = "calls"
    /\ UNCHANGED <<passLen, calls, total, state, left, msglen, md_buf, key,
                   initv, fed>>

-----------------------------------------------------------------------------
(* md5_finish *)

\* Variant: msglen need not find room in the last block.
Padn_OneMore(last) ==
    IF last <= BufferSize - LengthSize THEN BufferSize - LengthSize - last
    ELSE 2 * BufferSize - LengthSize - last

\* The padding that leaves room for msglen at the end of a block.
Padn(last) ==
    IF last < BufferSize - LengthSize THEN BufferSize - LengthSize - last
    ELSE 2 * BufferSize - LengthSize - last

\* total in bits: three places up, across the two words.  (The or of the code
\* is a sum here: the two parts have no bit in common.)
Low  == (total[1] * 8) % WordModulus
High == (total[1] \div (WordModulus \div 8) + total[2] * 8) % WordModulus

\* The length is taken before the padding is counted in.
md5_finish ==
    /\ calls' = <<"padding", "msglen", "output">>
    /\ msglen' = Length(Low, High)
    /\ UNCHANGED <<passLen, stage, context, md_buf, key, initv>>

-----------------------------------------------------------------------------
(* crypto_derive_key, and md5 for the iv *)

\* A round: the digest of the digest before it, from the second round on,
\* and the password.
DeriveRound ==
    /\ stage = "derive"
    /\ Len(key) < KeyLen
    /\ md5_starts
    /\ calls' = IF key = <<>> THEN <<"pass", "finish">>
                              ELSE <<"md_buf", "pass", "finish">>
    /\ stage' = "calls"
    /\ UNCHANGED <<passLen, msglen, md_buf, key, initv>>

\* The key is complete; the iv is the digest of the password alone.
DeriveIv ==
    /\ stage = "derive"
    /\ Len(key) = KeyLen
    /\ md5_starts
    /\ calls' = <<"pass", "finish">>
    /\ stage' = "calls"
    /\ UNCHANGED <<passLen, msglen, md_buf, key, initv>>

\* Variant: the break out of the copying loop is forgotten.
Output_NoBreak ==
    LET digest == Digest(state)
    IN  /\ md_buf' = digest
        /\ calls' = <<>>
        /\ IF Len(key) < KeyLen
             THEN /\ key' = key \o digest
                  /\ stage' = "derive"
                  /\ UNCHANGED initv
             ELSE /\ initv' = digest
                  /\ stage' = "done"
                  /\ UNCHANGED key
        /\ UNCHANGED <<passLen, context, msglen>>

\* The digest is given out and copied to the key, as far as it has room.
Output ==
    LET digest == Digest(state)
        room   == KeyLen - Len(key)
    IN  /\ md_buf' = digest
        /\ calls' = <<>>
        /\ IF room > 0
             THEN /\ key' = key \o First(digest, IF room < DigestSize
                                                 THEN room ELSE DigestSize)
                  /\ stage' = "derive"
                  /\ UNCHANGED initv
             ELSE /\ initv' = digest
                  /\ stage' = "done"
                  /\ UNCHANGED key
        /\ UNCHANGED <<passLen, context, msglen>>

\* The next call.
NextCall ==
    /\ stage = "calls"
    /\ \/ Head(calls) = "md_buf"  /\ md5_update(md_buf)
       \/ Head(calls) = "pass"    /\ md5_update(pass)
       \/ Head(calls) = "finish"  /\ md5_finish
       \/ Head(calls) = "padding" /\ md5_update(md5_padding(Padn(total[1] % BufferSize)))
       \/ Head(calls) = "msglen"  /\ md5_update(msglen)
       \/ Head(calls) = "output"  /\ Output

KeyNext == DeriveRound \/ DeriveIv \/ NextCall \/ Fill \/ ProcessBlock \/ KeepRest

KeySpec == KeyInit /\ [][KeyNext]_keyVars

-----------------------------------------------------------------------------
(* Properties *)

\* However the input was cut into calls, the processed blocks, the part of
\* the buffer in use and the rest of the input are what md5_update was given,
\* in order: nothing skipped, nothing twice, nothing stale.
NothingSkipped ==
    LET used == IF stage \in {"fill", "blocks"} THEN left ELSE total[1] % BufferSize
    IN  state \o First(buffer, used) \o input = fed

\* memcpy never writes past the end of the buffer.
StaysInBuffer ==
    stage = "blocks" /\ Len(input) < BufferSize => left + Len(input) <= BufferSize

\* What MD5 (RFC 1321) is the digest of: the message, a one bit and the
\* fewest zeros that leave room for its length in bits at the end of a block.
Padded(m) ==
    LET room == CHOOSE n \in 1 .. BufferSize :
                    (Len(m) + n + LengthSize) % BufferSize = 0
        bits == 8 * Len(m)
    IN  m \o md5_padding(room)
          \o Length(bits % WordModulus, (bits \div WordModulus) % WordModulus)

\* Both ends make the key from the password alone: the digests, each of the
\* one before and the password, one after the other, cut to the key's size.
Round[r \in Nat] ==
    Digest(Padded(IF r = 0 THEN pass ELSE Round[r - 1] \o pass))

KeyIsDerived ==
    stage = "done" =>
        /\ key = [i \in 1 .. KeyLen |->
                     Round[(i - 1) \div DigestSize][((i - 1) % DigestSize) + 1]]
        /\ initv = Round[0]
=============================================================================
