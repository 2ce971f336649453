CONSTANTS
    a = a
    b = b
    c = c
    d = d
    Follower = Follower
    Peers <- MCPeers
    ConfSeq <- MCConfSeq
    MaxIndex <- MCMaxIndex
SPECIFICATION Spec
INVARIANT TypeOK
INVARIANT CommittedByQuorum
INVARIANT NoGrantedLeftPending
INVARIANT QueueCoversLog
PROPERTY CommitMonotone
PROPERTY ResetChecksHold
PROPERTY EveryCommitNotified
