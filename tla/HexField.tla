------------------------------ MODULE HexField -----------------------------
(***************************************************************************)
(* The field calculus on one pod: rtl/grad_recon.v (TGRAD, TRECON) and     *)
(* rtl/trelax.v (TRELAX), at the NTRITS = 6 the accelerator uses.          *)
(*                                                                         *)
(* A word of n balanced trits is represented by its value; 2-bit trit      *)
(* codes and integers in -(3^n-1)/2 .. (3^n-1)/2 correspond one to one     *)
(* when no trit holds the forbidden code 11.  The sums of up to six        *)
(* 6-trit values below stay within the 8 trits the adders keep             *)
(* (theorems TgradLossless and RelaxBetween), so no adder wraps.              *)
(***************************************************************************)
EXTENDS Integers

Max6  == 364                   \* (3^6 - 1) / 2
Max8  == 3280
Max12 == 265720

Coef  == -Max6 .. Max6         \* 6 trits
Coef8 == -Max8 .. Max8         \* 8 trits, the safe width SW = NTRITS + 2
Word  == -Max12 .. Max12       \* 12 trits, one 24-bit word: a + 729 b

Dir == 0 .. 5                  \* the six neighbours, angle order

(* Keep the low 6 trits: the balanced residue modulo 3^6.                  *)
Low6(x) == ((x + 364) % 729) - 364

(* Mutant: the centre is not divided.                                      *)
DropNoTrit(x) == x

(* Drop the low trit, or the low two: division rounded to nearest.         *)
DropTrit(x)  == (x + 1) \div 3
DropTrits(x) == (x + 4) \div 9

(* tgrad_cell: the two grades of the discrete geometric derivative.        *)
Div(F)  == F[0] - F[2] - F[3] + F[5]
Curl(F) == F[1] + F[2] - F[4] - F[5]

(* trecon_cell: the recovered neighbours and the fit flag.                 *)
Recon(div, curl) ==
  [k \in Dir |-> CASE k = 0 -> Low6(div) [] k = 1 -> Low6(curl) [] OTHER -> 0]

(* Mutant: only the curl is checked.                                       *)
OfitCurl(div, curl) == curl \notin Coef

Ofit(div, curl) == ~(div \in Coef /\ curl \in Coef)

(* trelax_cell: u' = u/3 + (sum of the neighbours)/9.                      *)
NbSum(F)    == F[0] + F[1] + F[2] + F[3] + F[4] + F[5]
Relax(u, F) == Low6(DropTrit(u) + DropTrits(NbSum(F)))
=============================================================================
