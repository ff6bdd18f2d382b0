-------------------------------- MODULE MCInbox --------------------------------
EXTENDS Inbox
=============================================================================
