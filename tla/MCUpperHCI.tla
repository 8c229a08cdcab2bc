----------------------------- MODULE MCUpperHCI -----------------------------
(***************************************************************************)
(* UpperHCI for TLC.  The host is put together from what blecli.py offers  *)
(* to hosts, so that every kind of concurrency occurs: the program of      *)
(* cm_reset, cm_advertise and sh_passive_scan cut to commands that differ  *)
(* in their callbacks and places, and a timer that queues the command of   *)
(* sh_cancel_scan and the entry of cm_done.                                *)
(***************************************************************************)
EXTENDS UpperHCI

HostProgram == <<"Reset", "Read_BD_ADDR", "Read_Tx_Power", "Scan_Enable">>
HostTimer == <<"Scan_Disable", Done>>

\* cm_got_bd_addr queues nothing, cm_got_actxp the advertiser's commands.
HostThen ==
    [c \in {"Read_BD_ADDR", "Read_Tx_Power"} |->
        IF c = "Read_Tx_Power" THEN <<"Set_Adv_Data", "Set_Adv_Enable">> ELSE <<>>]
=============================================================================
