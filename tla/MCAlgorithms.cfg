SPECIFICATION Spec
CONSTANT Attempts = 2
CONSTANT Band = 1
CONSTANT Documents <- MCDocuments
CONSTANT HintShape <- MCHintShape
CONSTANT LiveSessions <- MCLiveSessions
INVARIANT LinearAlgebraExact
INVARIANT MayoSigns
INVARIANT MldsaSigns
INVARIANT FaestCommits
INVARIANT FaestSigns
INVARIANT QuicksilverProves
INVARIANT PomfritSigns
INVARIANT EncodingsFaithful
INVARIANT MailProvesSender
CHECK_DEADLOCK FALSE
