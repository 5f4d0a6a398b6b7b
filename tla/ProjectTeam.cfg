SPECIFICATION Spec
CONSTANTS
    Role = {r1, r2}
    Request = {q1, q2}
    Bot = {b1, b2}
    None = None
INVARIANTS OpenQuestionsAreTidy ReplyIsTrueUnlessLate
PROPERTIES OpenQuestionIsSettled KeepsDesk
