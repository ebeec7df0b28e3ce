------------------------------- MODULE MCDigests -------------------------------
(* Instances of Digests in the first days of a year that belong to the     *)
(* last week of the year before, with one thing at a time that may happen. *)
EXTENDS Digests

FirstDays ==
    <<[year |-> 2021, month |-> 1, week |-> 53, ordinal |-> 737791],
      [year |-> 2021, month |-> 1, week |-> 1, ordinal |-> 737794]>>

Change(level, mode, status) ==
    [level |-> level, prefs |-> [delivery_mode |-> mode, delivery_status |-> status]]
MCWishes ==
    {Change("user", "regular", "unset"), Change("address", "mime", "unset"),
     Change("member", "unset", "by_user"), Change("user", "unset", "unset")}

Quiet == [frequency |-> "weekly", threshold |-> 2, last |-> 1, olds |-> {}, days |-> 1,
          requests |-> 0, changes |-> 0, faults |-> 0]
MCScenarios ==
    {[Quiet EXCEPT !.threshold = 0],
     [Quiet EXCEPT !.faults = 1],
     [Quiet EXCEPT !.requests = 1, !.days = 2, !.last = 0],
     [Quiet EXCEPT !.requests = 1, !.days = 2, !.frequency = "daily"],
     [Quiet EXCEPT !.changes = 1, !.olds = {Former}]}
================================================================================
