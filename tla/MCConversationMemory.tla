------------------------ MODULE MCConversationMemory ------------------------
\* ConversationMemory on a small instance: the numbers of the code scaled down,
\* so that three turns cross the summary window and two threads share the affinity.
EXTENDS ConversationMemory
=============================================================================
