-------------------------- MODULE MC_SnsNamingClient --------------------------
EXTENDS SnsNamingClient

CONSTANTS t1, t2

MCThreads == {t1, t2}
MCThreshold == 2

(* FLAGS_sns_reregister_threshold = 0, which no validator refuses: with    *)
(* Threshold <- MCThresholdZero, EventuallyRegistered fails.              *)
MCThresholdZero == 0
=============================================================================
