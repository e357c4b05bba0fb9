------------------------- MODULE TransferIdentifier -------------------------
(***************************************************************************)
(* The payment identifier TransferTask gives a transfer that names none    *)
(* (tasks/channels.py): the decimal digits of a hash of the scenario's     *)
(* name, of the run number and of the number of the transfer, each behind  *)
(* a 1.  Nodes with reused accounts remember the payments of earlier runs, *)
(* so an identifier must not come back in any run of the installation.     *)
(***************************************************************************)
EXTENDS Integers

CONSTANTS
    RunBase,    \* 10 to the power of the digits of the run number: 10^4
    CountBase   \* and of those of the number of the transfer: 10^6

ASSUME DigitsAssumption == RunBase \in Nat \ {0} /\ CountBase \in Nat \ {0}

\* The first two bytes of the SHA-256 of the scenario's name.
Hashes == 0..(256 * 256 - 1)

\* A number may have more digits than are kept for it; six more are modelled.
Scales(base) == {base * p : p \in {1, 10, 100, 1000, 10000, 100000, 1000000}}

\* 10 to the power of the digits of x, at least `base`.
Scale(x, base) ==
    CHOOSE s \in Scales(base) : x < s /\ \A r \in Scales(base) : x < r => s <= r

\* The digits of x behind those of n.
Append(n, x, base) == n * Scale(x, base) + x

\* Mutant: the run number is left out.
IdentifierOfName(hash, run, count) ==
    Append(Append(Append(1, hash, 10), 1, 10), count, CountBase)

\* f"1{scenario_hash}1{run_number:04d}1{transfer_count:06d}"
Identifier(hash, run, count) ==
    LET prefix == Append(Append(1, hash, 10), 1, 10)
    IN  Append(Append(Append(prefix, run, RunBase), 1, 10), count, CountBase)
=============================================================================
