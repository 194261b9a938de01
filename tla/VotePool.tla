------------------------------ MODULE VotePool ------------------------------
(***************************************************************************)
(* PreparePool and CommitPool (PreparePool.go, CommitPool.go): the same    *)
(* structure twice, a map from a block hash to the votes for that block.   *)
(* The map is flattened to sets of votes [block, from]: those received and *)
(* not looked at (unconfirmed), those whose sender was found to be an      *)
(* active validator (confirmed), and for a validated block the number of   *)
(* validators there were.  A hash without an entry and one whose entry is  *)
(* empty answer every query alike, so the absence of both is one value.    *)
(***************************************************************************)
EXTENDS Integers, FiniteSets

Votes(Blocks, Nodes) == [block : Blocks, from : Nodes]

Pools(Blocks, Nodes) ==
  [unconfirmed : SUBSET Votes(Blocks, Nodes),
   confirmed   : SUBSET Votes(Blocks, Nodes),
   validated   : SUBSET [block : Blocks, nbVal : Nat]]

EmptyPool == [unconfirmed |-> {}, confirmed |-> {}, validated |-> {}]

Vote(b, n) == [block |-> b, from |-> n]

ExistingVote(pool, vote) ==
  vote \in pool.unconfirmed \cup pool.confirmed

\* AddPrepare, AddCommit: a vote that is already confirmed is left there.
AddVote(pool, vote) ==
  IF vote \in pool.confirmed
    THEN pool
    ELSE [pool EXCEPT !.unconfirmed = @ \cup {vote}]

VotesOf(votes, b) == {v \in votes : v.block = b}

\* Mutant: a vote is kept whoever sent it.
ConfirmAll(pool, b, validators) ==
  [pool EXCEPT
     !.unconfirmed = @ \ VotesOf(@, b),
     !.confirmed   = @ \cup VotesOf(pool.unconfirmed, b)]

\* confirm: the votes for b from active validators become confirmed, the
\* others are discarded.
Confirm(pool, b, validators) ==
  [pool EXCEPT
     !.unconfirmed = @ \ VotesOf(@, b),
     !.confirmed   = @ \cup {v \in VotesOf(pool.unconfirmed, b) :
                               v.from \in validators}]

\* What GetNbPrepareOfHashOfActive returns once it has confirmed.
NbConfirmed(pool, b) == Cardinality(VotesOf(pool.confirmed, b))

\* Validate: the block is settled; remember how many votes to expect.
Validate(pool, b, nbVal) ==
  [pool EXCEPT
     !.validated = {r \in @ : r.block # b} \cup {[block |-> b, nbVal |-> nbVal]}]

\* isFullValidated: validated, and every expected vote has been received.
IsFullValidated(pool, b) ==
  \E r \in pool.validated :
    /\ r.block = b
    /\ r.nbVal = Cardinality(VotesOf(pool.unconfirmed, b))
                   + Cardinality(VotesOf(pool.confirmed, b))

Remove(pool, b) ==
  [unconfirmed |-> pool.unconfirmed \ VotesOf(pool.unconfirmed, b),
   confirmed   |-> pool.confirmed \ VotesOf(pool.confirmed, b),
   validated   |-> {r \in pool.validated : r.block # b}]
=============================================================================
