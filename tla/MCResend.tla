------------------------------- MODULE MCResend -------------------------------
(* Instances of Resend for TLC.                                                *)
EXTENDS Resend

===============================================================================
