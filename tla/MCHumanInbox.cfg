SPECIFICATION FairSpec
CONSTANTS
    b1 = b1
    Mailboxes = {b1}
    Messages = {1, 2}
    Bodies = {x}
    Readers = {}
    MailboxOf <- MCMailboxOf
    MailPage = 1
    NoMessage = NoMessage
    Requests = {q1, q2}
    Timed = {q2}
    Answers = {1, 2}
    Chairs = {c1, c2}
    Ops = {1, 2, 3, 4, 5, 6, 7, 8}
    Hooks = {h1}
    Fit <- MCFit
    PageItems = 1
    Envelope = 1
    MaxRequests = 2
    MaxAttempts = 1
    None = None
CHECK_DEADLOCK FALSE
INVARIANT ResolvesOnce
INVARIANT OnlyToTarget
PROPERTY AckStands
PROPERTY AnswersArrive
