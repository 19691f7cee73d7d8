SPECIFICATION FairSpec
CONSTANTS
    Tokens <- MCTokens
    Junk = 99
INVARIANTS
    TypeOK
    NewestWins
PROPERTIES
    OncePerPacket
    MailboxesDrain
