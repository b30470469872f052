------------------------------ MODULE MCAccounts ------------------------------
(* Instances of Accounts for TLC.                                             *)
EXTENDS Accounts, TLC

CONSTANTS ann, bob, t1, t2, form, console

Everyone  == {ann, bob}
TwoRoles  == {"admin", "reader"}
TwoTokens == {t1, t2}
OneToken  == {t1}
OneForm   == {form}
OneUser   == {console}
Same      == Permutations(Everyone) \cup Permutations(TwoTokens)
===============================================================================
