---------------------------- MODULE MCApplication -----------------------------
(* The scan and the commands, in the order in which build_application()        *)
(* registers them; the other tasks are like the scan without its switch.       *)
EXTENDS Application

CONSTANTS scan, commands

TwoTasks == <<scan, commands>>
===============================================================================
