--------------------------- MODULE MCAnnouncements ---------------------------
(* Instances of Announcements.                                               *)
EXTENDS Announcements
=============================================================================
