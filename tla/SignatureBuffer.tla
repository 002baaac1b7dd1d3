-------------------------- MODULE SignatureBuffer --------------------------
(***************************************************************************)
(* Signature staging, as porst_wallet and porst_agent do it.  A signature  *)
(* does not fit in a transaction: it is written, chunk by chunk, to a      *)
(* buffer account of the program (write_buffer), and the transaction that  *)
(* needs it names the buffer.  Anybody may write any chunk, at any time.   *)
(***************************************************************************)
EXTENDS Integers

CONSTANTS
  Buffers,    \* buffer accounts
  NumChunks   \* chunks of a signature

ASSUME BufferAssumption == NumChunks \in Nat \ {0}

VARIABLE buffer   \* [Buffers -> [1 .. NumChunks -> what the chunk holds]]

Chunks == 1 .. NumChunks

(* A chunk of the signature of intent i, or anything else.                 *)
Junk == [of |-> "junk"]
Piece(i, n) == [of |-> "signature", intent |-> i, chunk |-> n]

Pieces(S) == {Junk} \cup {Piece(i, n) : i \in S, n \in Chunks}

BuffersHold(S) == \A b \in Buffers, n \in Chunks : buffer[b][n] \in Pieces(S)

BufferInit == buffer = [b \in Buffers |-> [n \in Chunks |-> Junk]]

WriteBuffer(b, n, piece) == buffer' = [buffer EXCEPT ![b][n] = piece]

(* Clients write each chunk of a signature where it belongs; whatever else *)
(* is written is junk.                                                     *)
Stage(S) ==
  \E b \in Buffers, n \in Chunks :
    \/ \E i \in S : WriteBuffer(b, n, Piece(i, n))
    \/ WriteBuffer(b, n, Junk)

(* The buffer holds the signature of i: every chunk of it, in its place.   *)
Holds(b, i) == \A n \in Chunks : buffer[b][n] = Piece(i, n)

(* The intent whose signature the buffer was found to hold.                *)
IntentIn(b) == buffer[b][1].intent
=============================================================================
