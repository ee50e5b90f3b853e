--------------------------- MODULE MCFormValidation ---------------------------
(***************************************************************************)
(* Values of the constants of FormValidation for TLC: an address that need  *)
(* not be given, and two repetitions of it, one of them required.          *)
(***************************************************************************)
EXTENDS FormValidation, TLC

CONSTANTS mail, again, more, none, short, long

SomeValues == {none, short, long}
SomeSizes == none :> 0 @@ short :> 1 @@ long :> 2

(* [EmailAddress]; [Compare("mail")][StringLength(2, MinimumLength = 2)];   *)
(* and [Required][Compare("mail")].                                        *)
TwoAtLeast == again :> 2
TwoAtMost == again :> 2
RepeatAddress == again :> mail @@ more :> mail
=============================================================================
