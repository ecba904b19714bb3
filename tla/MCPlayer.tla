------------------------------ MODULE MCPlayer ------------------------------
\* Small instances of Player: which commands the tasks may send in each run.
EXTENDS Player

CONSTANT web

OneTask == {web}

\* Everything that starts, stops or locks the radio.
PlayCommands == {"start", "stop", "mode", "config", "wifi"}

\* Station numbers: uploads, clearspiffs, steps through the list.
ListCommands == {"toggle", "select", "replay", "prev", "next", "upload", "mode"}

\* smartstart set by hand while the radio starts, stops and ends.
SmartCommands == {"toggle", "smartstart", "wifi"}

\* The volume, with a connect to delay its save.
VolumeCommands == {"start", "volume"}

AllScenarios == {PlayCommands, ListCommands, SmartCommands, VolumeCommands}
PlayOnly == {PlayCommands}
=============================================================================
