------------------------------ MODULE MCService ------------------------------
(***************************************************************************)
(* Service with the default configuration and those whose intervals are    *)
(* zero.                                                                   *)
(***************************************************************************)
EXTENDS Service

MCSettings ==
    {DefaultConfig,
     [DefaultConfig EXCEPT !.cleanup_interval_seconds = 0],
     [DefaultConfig EXCEPT !.backfill_delay_seconds = 0]}
=============================================================================
