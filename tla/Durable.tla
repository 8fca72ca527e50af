------------------------------ MODULE Durable -------------------------------
(***************************************************************************)
(* What a stopped and restarted service promises of the records it keeps: a     *)
(* start continues from what is stored, an orderly stop happens only once         *)
(* everything recorded is stored, a crash loses what was not.                      *)
(***************************************************************************)
EXTENDS Naturals

VARIABLES on, mem, disk

DurableInit == on = FALSE /\ mem = 0 /\ disk = 0
Start == ~on /\ on' = TRUE /\ mem' = disk /\ UNCHANGED disk
Record == on /\ mem' = mem + 1 /\ UNCHANGED <<on, disk>>
Save == on /\ disk' = mem /\ UNCHANGED <<on, mem>>
StopStored == on /\ mem = disk /\ on' = FALSE /\ UNCHANGED <<mem, disk>>
Lose == on /\ on' = FALSE /\ mem' = disk /\ UNCHANGED disk

DurableSpec == DurableInit /\ [][Start \/ Record \/ Save \/ StopStored \/ Lose]_<<on, mem, disk>>
=============================================================================
