---------------------------- MODULE MCUbotCall ----------------------------
EXTENDS UbotCall

\* A second voice chat is opened where updates of the first can be late.
MCVoice == [rtc |-> 2, stream |-> 1, user |-> 0]
=============================================================================
