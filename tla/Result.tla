------------------------------- MODULE Result -------------------------------
(***************************************************************************)
(* common/result.h, result/value_storage.h, result/make.h: Result<T> is an *)
(* Error, and raw storage in which a T is alive while the Error is none.   *)
(*                                                                         *)
(* A cell is a piece of memory that may hold a T: a variable of type T or  *)
(* the storage of a Result.  A T owns a resource: a Handle, which it gives *)
(* away when it is moved, or a Token, which it copies even when moved (a   *)
(* class with const members).  used counts the owners of a resource: a     *)
(* constructor adds one, a destructor gives one back.                      *)
(***************************************************************************)
EXTENDS Threads, Naturals, FiniteSets

CONSTANTS
  Results,             \* variables of type Result<T>
  Others,              \* other cells that hold a T
  Handle, Token,       \* the resources
  Dead,                \* no T is alive in the cell
  Absent               \* the Result does not exist

Cell == Results \cup Others
Errors == {"none", "code", "exception"}

ASSUME ResultAssumption ==
  /\ Results \cap Others = {} /\ Handle \cap Token = {}
  /\ {None, Dead} \cap (Handle \cup Token) = {} /\ None /= Dead
  /\ IsFiniteSet(Results) /\ IsFiniteSet(Others)
  /\ Absent \notin Errors

VARIABLES
  cell,                \* the resource of the T in the cell, None, or Dead
  error,               \* Result::error_
  used                 \* the owners a resource counts

resultVars == <<cell, error, used>>

ResultInit ==
  /\ cell = [c \in Cell |-> Dead]
  /\ error = [r \in Results |-> Absent]
  /\ used = [p \in Handle \cup Token |-> 0]

Exists(r) == error[r] /= Absent
HasValue(r) == error[r] = "none"

(* T(T&&) in cell d from cell c, when before[d] holds no T: a Handle is    *)
(* taken away, a Token is counted again                                    *)
MovedCells(before, c, d) ==
  [before EXCEPT ![d] = before[c],
                 ![c] = IF before[c] \in Handle THEN None ELSE @]
Counted(n, p) == [q \in DOMAIN n |-> IF q = p THEN n[q] + 1 ELSE n[q]]
MoveCount(n, p) == IF p \in Token THEN Counted(n, p) ELSE n

(* ~T() of the T with resource p *)
Released(n, p) == [q \in DOMAIN n |-> IF q = p THEN n[q] - 1 ELSE n[q]]

(* a faulty DestroyValueIfExists, for testing the properties *)
DestroyNothing(r) == used

DestroyValueIfExists(r) == IF HasValue(r) THEN Released(used, cell[r]) ELSE used

(* Ok(T&&) *)
OkResult(r, c) ==
  /\ ~Exists(r) /\ cell[c] /= Dead
  /\ error' = [error EXCEPT ![r] = "none"]
  /\ cell' = MovedCells(cell, c, r)
  /\ used' = MoveCount(used, cell[c])

(* Fail(error), from an error code or an exception *)
FailResult(r, e) ==
  /\ ~Exists(r)
  /\ error' = [error EXCEPT ![r] = e]
  /\ UNCHANGED <<cell, used>>

(* MoveImpl: the moved Error keeps its alternative, so s stays what it is *)
MoveImpl(r, s, n) ==
  /\ error' = [error EXCEPT ![r] = error[s]]
  /\ cell' = IF HasValue(s) THEN MovedCells(cell, s, r) ELSE [cell EXCEPT ![r] = Dead]
  /\ used' = IF HasValue(s) THEN MoveCount(n, cell[s]) ELSE n

(* CopyImpl; HttpRequest cannot be copied *)
CopyImpl(r, s, n) ==
  /\ HasValue(s) => cell[s] \in Token
  /\ error' = [error EXCEPT ![r] = error[s]]
  /\ cell' = [cell EXCEPT ![r] = cell[s]]
  /\ used' = Counted(n, cell[s])

MoveResult(r, s) == ~Exists(r) /\ Exists(s) /\ MoveImpl(r, s, used)
CopyResult(r, s) == ~Exists(r) /\ Exists(s) /\ CopyImpl(r, s, used)

(* operator=, between two Results *)
MoveAssignResult(r, s) ==
  Exists(r) /\ Exists(s) /\ r /= s /\ MoveImpl(r, s, DestroyValueIfExists(r))
CopyAssignResult(r, s) ==
  Exists(r) /\ Exists(s) /\ r /= s /\ CopyImpl(r, s, DestroyValueIfExists(r))

(* ValueOrThrow() && and the conversion to T&&; c is constructed from it.  *)
(* With an error it throws and nothing is constructed.                     *)
Unwrap(r, c) ==
  /\ HasValue(r) /\ cell[r] \notin Token /\ cell[c] = Dead
  /\ cell' = MovedCells(cell, r, c)
  /\ UNCHANGED <<error, used>>

(* PropagateError, and JustStatus when it fails: s gets a copy of the error *)
PropagateError(r, s) ==
  /\ Exists(s) /\ ~HasValue(s)
  /\ FailResult(r, error[s])

DestroyResult(r) ==
  /\ Exists(r)
  /\ used' = DestroyValueIfExists(r)
  /\ cell' = [cell EXCEPT ![r] = Dead]
  /\ error' = [error EXCEPT ![r] = Absent]

----------------------------------------------------------------------------
(* Every T is constructed and destroyed exactly once, however Results are  *)
(* moved, copied and assigned: a resource counts the cells that own it, a  *)
(* Handle has one owner, and the storage of a Result holds a T exactly     *)
(* while its error is none.                                                *)
OwnedExactly ==
  /\ \A p \in Handle \cup Token : used[p] = Cardinality({c \in Cell : cell[c] = p})
  /\ \A h \in Handle : used[h] <= 1
  /\ \A r \in Results : cell[r] /= Dead <=> HasValue(r)
=============================================================================
