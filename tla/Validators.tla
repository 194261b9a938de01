----------------------------- MODULE Validators -----------------------------
(***************************************************************************)
(* The validator list (source/Blockchain/validator.go) and the arithmetic  *)
(* the consensus does on it.  A node is its index in nodeList; an active   *)
(* set is the key set of isActiveValidatorMap.  A public key that is not   *)
(* the key of a node is an integer outside Node.                           *)
(***************************************************************************)
EXTENDS Integers, FiniteSets, Sequences

CONSTANTS
  Node,            \* the indexes of nodeList
  MinValidators    \* the least size of an active set: 4 in the code

ASSUME ValidatorsAssumption ==
  /\ Node \subseteq Nat
  /\ IsFiniteSet(Node)
  /\ MinValidators \in Nat \ {0}
  /\ MinValidators <= Cardinality(Node)

Keys(list) == {list[i] : i \in DOMAIN list}

\* Mutant: the quorum is one too large.
MinApprovalsMore(nbVal) == (nbVal * 2) \div 3 + 2

\* The votes a block needs at each of the two voting phases.
MinApprovals(nbVal) == (nbVal * 2) \div 3 + 1

IsSizeValid(newSize) ==
  /\ newSize >= MinValidators
  /\ newSize <= Cardinality(Node)

CheckIfValidatorsAreNodes(newList) == Keys(newList) \subseteq Node

\* The node that comes index-th (from 0) when the active set is sorted.
GetActiveValidatorIndexOfValue(validators, index) ==
  CHOOSE v \in validators : Cardinality({w \in validators : w < v}) = index
=============================================================================
