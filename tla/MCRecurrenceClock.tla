-------------------------- MODULE MCRecurrenceClock --------------------------
(* A frequent cron, a rare one, and one that never matches (30 February).  *)
EXTENDS RecurrenceClock

MCCrons == {"frequent", "rare", "never"}
MCDates ==
    [c \in MCCrons |->
        CASE c = "frequent" -> {2, 3, 5, 6, 8, 9, 10}
          [] c = "rare" -> {3, 7, 10}
          [] c = "never" -> {}]
=============================================================================
