------------------------------- MODULE MCSession -------------------------------
(* Two accounts, and two passwords, of which Utilities accepts one.        *)
EXTENDS Session

CONSTANTS ana, bia

MCAccounts == {ana, bia}
MCPasswords == { [length |-> 8, classes |-> {"lower", "special"}],
                 [length |-> 8, classes |-> {"lower", "digit"}] }

=============================================================================
