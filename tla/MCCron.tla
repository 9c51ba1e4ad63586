-------------------------------- MODULE MCCron --------------------------------
(***************************************************************************)
(* Cron on a small calendar, with schedules that use each kind of field.   *)
(***************************************************************************)
EXTENDS Cron

CONSTANTS plain, scripted

Schedule(minutes, hours, days, months, weekdays) ==
    [minutes |-> minutes, hours |-> hours, days |-> days, months |-> months,
     weekdays |-> weekdays]

Often == Schedule(Step(0, 2), Every, Every, Every, Every)
Yearly == Schedule(Exact({0}), Exact({0}), Exact({2}), Exact({1}), Every)
Rare == Schedule(Every, Every, Exact({2}), Exact({2}), Every)
Weekly == Schedule(Exact({0}), Exact({1}), Every, Every, Exact({1}))
Daily == Schedule(Exact({0}), Exact({0}), Every, Every, Every)

(* Either both jobs are due in minute 2, or neither within the model's time:  *)
(* their next days and months are jumped to.                                 *)
SmallSchedules ==
    { [j \in Jobs |-> IF j = scripted THEN Yearly ELSE Often],
      [j \in Jobs |-> IF j = scripted THEN Weekly ELSE Rare] }

DailySchedules == { [j \in Jobs |-> Daily] }

(* An hour east of the clock: the second hour of the year's second day is    *)
(* passed over, which Weekly is to run in, and the first of its fourth day,  *)
(* which Rare begins with, comes twice.                                      *)
OneHourEast == 1
EastSummer == {2, 3, 4}

(* An hour west: the first hour of the year's second day is passed over.     *)
OneHourWest == -1
WestSummer == {3, 4, 5, 6}

=============================================================================
