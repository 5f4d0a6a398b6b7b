SPECIFICATION Spec
CONSTANTS
    Project = {p1, p2}
    MaxNotes = 2
    MaxTranscript = 1
    MaxFaults = 2
    None = None
INVARIANTS OneConversationOpen NotesReachOwnerInOrder
    RepeatedOnlyAfterFault
PROPERTIES TalkStartsNoPipeline PlainTextStaysInTalk QueuedIsDelivered
