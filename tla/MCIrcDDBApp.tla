---- MODULE MCIrcDDBApp ----
EXTENDS IrcDDBApp
====
