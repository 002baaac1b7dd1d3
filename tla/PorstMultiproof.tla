-------------------------- MODULE PorstMultiproof --------------------------
(***************************************************************************)
(* A signature, word by word: the subset of leaves a digest selects        *)
(* (derive_subset), the stream of preimages and witnesses the signer       *)
(* writes for it (porst_sign, xmss_auth), and the walk in which the        *)
(* verifier reads it back (compute_porst_root, verify_wallet_sig).  Both   *)
(* walks go over the subset from left to right and keep, in a frontier     *)
(* with one slot per level, the node that a later leaf will need.          *)
(*                                                                         *)
(* Keccak is a free constructor: hashes are equal only if what was hashed  *)
(* is.  A selection, being a piece of a hash, is any leaf.  With           *)
(* XmssHeight = 0 there is one tree and this is the few-time program's     *)
(* verify_porst, and the contract PORST.sol, whose empty frontier slot is  *)
(* the zero word.                                                          *)
(***************************************************************************)
EXTENDS Integers, Sequences, FiniteSets

CONSTANTS
  TreeHeight,   \* TREE_HEIGHT
  SubsetSize,   \* SUBSET_SIZE
  XmssHeight    \* XMSS_HEIGHT

ASSUME MultiproofAssumption ==
  /\ {TreeHeight, SubsetSize} \subseteq Nat \ {0} /\ XmssHeight \in Nat
  /\ SubsetSize <= 2 ^ TreeHeight

VARIABLES
  phase,      \* what is being done
  subset,     \* the leaves selected so far, then the signed ones
  epoch,      \* the epoch they are signed under
  walk,       \* where the walk over the subset is
  signature,  \* the words after the salt that the signer wrote
  sig,        \* the words the verifier was given
  claim,      \* the subset and epoch the verifier goes by
  cursor      \* words it has read

vars == <<phase, subset, epoch, walk, signature, sig, claim, cursor>>

Leaves == 0 .. 2 ^ TreeHeight - 1
Epochs == 0 .. 2 ^ XmssHeight - 1

(* Words.  Reading past the end of the signature gives zero.               *)
Zero == <<"zero">>
Junk == <<"junk">>
Preimage(e, i) == <<"preimage", e, i>>
Hash1(word) == <<"hash1", word>>
Hash2(a, b) == <<"hash2", a, b>>

(* Levels of a Merkle tree, from the leaves up.                            *)
Merkle(height, leaf) ==
  LET row[l \in 0 .. height] ==
        IF l = 0 THEN leaf
        ELSE [k \in 0 .. 2 ^ (height - l) - 1 |->
                Hash2(row[l - 1][2 * k], row[l - 1][2 * k + 1])]
  IN  row

EpochTree ==
  [e \in Epochs |->
     Merkle(TreeHeight, [i \in Leaves |-> Hash1(Preimage(e, i))])]

Xmss == Merkle(XmssHeight, [e \in Epochs |-> EpochTree[e][TreeHeight][0]])

PublicKey == Xmss[XmssHeight][0]

(* The node that the path of leaf i goes through at a level.               *)
PathAt(i, level) == i \div 2 ^ level

IsRight(i, level) == PathAt(i, level) % 2 = 1

SiblingOf(k) == IF k % 2 = 0 THEN k + 1 ELSE k - 1
SiblingAt(row, i, level) == row[level][SiblingOf(PathAt(i, level))]

XmssAuth(e) == [n \in 1 .. XmssHeight |-> SiblingAt(Xmss, e, n - 1)]
-----------------------------------------------------------------------------
(* Selecting the subset: sorted insertion, duplicates consumed.            *)
LowerBound(sorted, selection) ==
  LET ends == 0 .. Len(sorted)
      search[span \in ends \X ends] ==
        LET lo == span[1]  hi == span[2]  mid == (lo + hi) \div 2
        IN  IF lo < hi
            THEN IF sorted[mid + 1] < selection
                 THEN search[<<mid + 1, hi>>] ELSE search[<<lo, mid>>]
            ELSE lo
  IN  search[<<0, Len(sorted)>>]

(* Fault: a search that steps over an equal element.                       *)
InsertAfterEqual(sorted, selection) ==
  LET lo == Cardinality({n \in DOMAIN sorted : sorted[n] <= selection})
  IN  SubSeq(sorted, 1, lo) \o <<selection>>
        \o SubSeq(sorted, lo + 1, Len(sorted))

InsertSelection(sorted, selection) ==
  LET lo == LowerBound(sorted, selection)
  IN  IF lo < Len(sorted) /\ sorted[lo + 1] = selection
      THEN sorted
      ELSE SubSeq(sorted, 1, lo) \o <<selection>>
             \o SubSeq(sorted, lo + 1, Len(sorted))

Select ==
  /\ phase = "derive" /\ Len(subset) < SubsetSize
  /\ \E selection \in Leaves : subset' = InsertSelection(subset, selection)
  /\ UNCHANGED <<phase, epoch, walk, signature, sig, claim, cursor>>
-----------------------------------------------------------------------------
(* The walk.  idx is the leaf it is at, level how far it has climbed from  *)
(* it, or Below before the leaf's preimage.                                *)
Below == -1
Empty == <<>>

StartOfWalk ==
  [idx |-> 1, level |-> Below, node |-> Empty,
   frontier |-> [l \in 0 .. TreeHeight |-> Empty]]

(* The level at which the path of leaf i merges with that of the next.     *)
ParkLevel(S, idx) ==
  IF idx = SubsetSize THEN TreeHeight
  ELSE CHOOSE l \in 0 .. TreeHeight - 1 :
         /\ PathAt(S[idx], l) # PathAt(S[idx + 1], l)
         /\ PathAt(S[idx], l + 1) = PathAt(S[idx + 1], l + 1)

AtLeaf(w) == w.idx <= SubsetSize /\ w.level = Below
Climbing(w, S) == w.level \in 0 .. ParkLevel(S, w.idx) - 1

(* Fault: the parked node is forgotten.                                    *)
AlwaysWitness(w, i) == TRUE

(* Whether the sibling comes from the stream rather than the frontier.     *)
NeedsWitness(w, i) == ~IsRight(i, w.level) \/ w.frontier[w.level] = Empty

Reveal(w, word) == [w EXCEPT !.node = Hash1(word), !.level = 0]

Climb(w, i, sibling) ==
  [w EXCEPT !.level = @ + 1,
            !.node = IF IsRight(i, w.level) THEN Hash2(sibling, @)
                                            ELSE Hash2(@, sibling)]

(* Fault: the slot is not emptied.                                         *)
TakeParkedKeeping(w) ==
  [w EXCEPT !.level = @ + 1, !.node = Hash2(w.frontier[w.level], @)]

TakeParked(w) ==
  [w EXCEPT !.level = @ + 1,
            !.node = Hash2(w.frontier[w.level], @),
            !.frontier[w.level] = Empty]

Park(w) ==
  [w EXCEPT !.frontier[w.level] = w.node, !.node = Empty,
            !.idx = @ + 1, !.level = Below]
-----------------------------------------------------------------------------
Init ==
  /\ phase = "derive" /\ subset = <<>> /\ epoch \in Epochs
  /\ walk = StartOfWalk /\ signature = <<>>
  /\ sig = <<>> /\ claim = [subset |-> <<>>, epoch |-> 0] /\ cursor = 0

StartSigning ==
  /\ phase = "derive" /\ Len(subset) = SubsetSize
  /\ phase' = "sign"
  /\ UNCHANGED <<subset, epoch, walk, signature, sig, claim, cursor>>

SignStep ==
  /\ phase = "sign" /\ walk.idx <= SubsetSize
  /\ LET i == subset[walk.idx]
         witness == SiblingAt(EpochTree[epoch], i, walk.level)
     IN  \/ /\ AtLeaf(walk)
            /\ walk' = Reveal(walk, Preimage(epoch, i))
            /\ signature' = Append(signature, Preimage(epoch, i))
         \/ /\ Climbing(walk, subset) /\ NeedsWitness(walk, i)
            /\ walk' = Climb(walk, i, witness)
            /\ signature' = Append(signature, witness)
         \/ /\ Climbing(walk, subset) /\ ~NeedsWitness(walk, i)
            /\ walk' = TakeParked(walk)
            /\ UNCHANGED signature
         \/ /\ walk.level = ParkLevel(subset, walk.idx)
            /\ walk' = Park(walk)
            /\ UNCHANGED signature
  /\ UNCHANGED <<phase, subset, epoch, sig, claim, cursor>>

FinishSigning ==
  /\ phase = "sign" /\ walk.idx > SubsetSize
  /\ signature' = signature \o XmssAuth(epoch)
  /\ phase' = "signed"
  /\ UNCHANGED <<subset, epoch, walk, sig, claim, cursor>>

(* What can become of the words on their way through the buffer: one is    *)
(* another, the last ones are missing, there is one too many, two          *)
(* neighbours have changed places.                                         *)
Damaged(words) ==
  {[words EXCEPT ![n] = Junk] : n \in DOMAIN words}
    \cup {SubSeq(words, 1, n) : n \in 0 .. Len(words) - 1}
    \cup {Append(words, Junk)}
    \cup {[words EXCEPT ![n] = words[n + 1], ![n + 1] = words[n]] :
            n \in 1 .. Len(words) - 1}

Increasing(S) == \A m, n \in DOMAIN S : m < n => S[m] < S[n]

Subsets == {S \in [1 .. SubsetSize -> Leaves] : Increasing(S)}

Signed == [subset |-> subset, epoch |-> epoch]

(* The verifier goes by the digest it recomputes and the epoch on chain.   *)
(* Bound: one thing is wrong at a time.                                    *)
Present ==
  /\ phase = "signed"
  /\ \/ claim' = Signed /\ sig' \in {signature} \cup Damaged(signature)
     \/ claim' \in [subset : Subsets, epoch : Epochs] /\ sig' = signature
  /\ phase' = "verify" /\ walk' = StartOfWalk /\ cursor' = 0
  /\ UNCHANGED <<subset, epoch, signature>>

Load == IF cursor < Len(sig) THEN sig[cursor + 1] ELSE Zero

VerifyStep ==
  /\ phase = "verify" /\ walk.idx <= SubsetSize
  /\ LET i == claim.subset[walk.idx]
     IN  \/ AtLeaf(walk) /\ walk' = Reveal(walk, Load) /\ cursor' = cursor + 1
         \/ /\ Climbing(walk, claim.subset) /\ NeedsWitness(walk, i)
            /\ walk' = Climb(walk, i, Load) /\ cursor' = cursor + 1
         \/ /\ Climbing(walk, claim.subset) /\ ~NeedsWitness(walk, i)
            /\ walk' = TakeParked(walk) /\ UNCHANGED cursor
         \/ /\ walk.level = ParkLevel(claim.subset, walk.idx)
            /\ walk' = Park(walk) /\ UNCHANGED cursor
  /\ UNCHANGED <<phase, subset, epoch, signature, sig, claim>>

(* Fault: the bits of the epoch are not looked at.                         *)
FoldAsFirst(root, auth, e) ==
  LET node[l \in 0 .. Len(auth)] ==
        IF l = 0 THEN root ELSE Hash2(node[l - 1], auth[l])
  IN  node[Len(auth)]

(* The rest of the words fold the epoch's root up to the public key.       *)
Fold(root, auth, e) ==
  LET node[l \in 0 .. Len(auth)] ==
        IF l = 0 THEN root
        ELSE IF IsRight(e, l - 1) THEN Hash2(auth[l], node[l - 1])
                                  ELSE Hash2(node[l - 1], auth[l])
  IN  node[Len(auth)]

LengthMatches == cursor <= Len(sig) /\ Len(sig) - cursor = XmssHeight

Accepts ==
  /\ LengthMatches
  /\ Fold(walk.frontier[TreeHeight],
          SubSeq(sig, cursor + 1, cursor + XmssHeight), claim.epoch) = PublicKey

Conclude ==
  /\ phase = "verify" /\ walk.idx > SubsetSize
  /\ phase' = IF Accepts THEN "accepted" ELSE "rejected"
  /\ UNCHANGED <<subset, epoch, walk, signature, sig, claim, cursor>>

Next ==
  \/ Select \/ StartSigning \/ SignStep \/ FinishSigning
  \/ Present \/ VerifyStep \/ Conclude

Spec == Init /\ [][Next]_vars
-----------------------------------------------------------------------------
(* PROPERTIES                                                              *)

(* The subset is strictly increasing whatever is selected in whatever      *)
(* order (derive_subset), as the park levels require, and the walk stays   *)
(* inside the tree.                                                        *)
MultiproofTypeOK ==
  /\ phase \in {"derive", "sign", "signed", "verify", "accepted", "rejected"}
  /\ Len(subset) <= SubsetSize /\ Increasing(subset)
  /\ epoch \in Epochs
  /\ walk.idx \in 1 .. SubsetSize + 1
  /\ walk.level \in Below .. TreeHeight
  /\ phase = "derive" \/ Len(subset) = SubsetSize

Intact == sig = signature /\ claim = Signed

(* A frontier slot holds exactly the node the coming leaves need there:    *)
(* the tree's left sibling of the path of the present leaf.  No node is    *)
(* parked where another still waits, and none is left over at the end but  *)
(* the root (porst_sign, and compute_porst_root on an intact signature).   *)
FrontierServesTheNextLeaf ==
  phase = "sign" \/ (phase = "verify" /\ Intact) =>
    \A l \in 0 .. TreeHeight :
      walk.frontier[l] # Empty =>
        IF walk.idx > SubsetSize
        THEN l = TreeHeight /\ walk.frontier[l] = EpochTree[epoch][l][0]
        ELSE LET i == subset[walk.idx]
             IN  /\ l < TreeHeight /\ l >= walk.level
                 /\ IsRight(i, l)
                 /\ walk.frontier[l] = SiblingAt(EpochTree[epoch], i, l)

(* What a signature must hold at least: besides the preimages, each node   *)
(* that covers no selected leaf while its sibling covers one.              *)
Covers(l, k) == \E n \in DOMAIN subset : PathAt(subset[n], l) = k

WitnessNodes ==
  {node \in UNION {{l} \X (0 .. 2 ^ (TreeHeight - l) - 1) :
                     l \in 0 .. TreeHeight - 1} :
     /\ ~Covers(node[1], node[2])
     /\ Covers(node[1], SiblingOf(node[2]))}

(* The signature holds these, each once, the preimages of the subset, and  *)
(* the path of the epoch, and no word more (porst_sign, sign_digest).      *)
SignatureIsMinimal ==
  phase = "signed" =>
    /\ Len(signature)
         = SubsetSize + Cardinality(WitnessNodes) + XmssHeight
    /\ {signature[n] : n \in DOMAIN signature}
         = {Preimage(epoch, subset[n]) : n \in DOMAIN subset}
             \cup {EpochTree[epoch][n[1]][n[2]] : n \in WitnessNodes}
             \cup {XmssAuth(epoch)[n] : n \in 1 .. XmssHeight}

(* Verification accepts a signature where it was made for, and nothing     *)
(* else: not with a word changed, missing, added or moved, nor for a       *)
(* digest that selects other leaves, nor for another epoch                 *)
(* (verify_wallet_sig, verify_porst).                                      *)
AcceptsWhatWasSigned ==
  /\ phase = "accepted" => Intact
  /\ phase = "rejected" => ~Intact
=============================================================================
