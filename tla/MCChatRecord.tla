---------------------------- MODULE MCChatRecord ----------------------------
EXTENDS ChatRecord
CONSTANTS p1, p2, c1, c2, u1, u2, admins, everyone
MCProcs == {p1, p2}
MCClients == {c1, c2}
MCUsers == {u1, u2}
MCAdmins == {u2}
MCModes == {admins, everyone}
=============================================================================
