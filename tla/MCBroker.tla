------------------------------ MODULE MCBroker ------------------------------
(* Three of the committed roles, one that only speaks, one that does both, one that  *)
(* only listens; a filter some rules allow and others refuse.                        *)
EXTENDS Broker

CONSTANTS clock, planner, shell

MCMayPublish(c) == CASE c = clock -> {<<"ctl", "clock">>}
                     [] c = planner -> {<<"ctl", "plan">>}
                     [] c = shell -> {}
MCMaySubscribe(c) == CASE c = clock -> {}
                       [] c = planner -> {<<"ctl", "clock">>, <<"obs", "#">>}
                       [] c = shell -> {<<"#">>}
MCTopics == {<<"ctl", "clock">>, <<"ctl", "plan">>}
MCFilters == {<<"ctl", "clock">>, <<"ctl", "+">>}
=============================================================================
