SPECIFICATION Spec
CONSTANTS
    Nil = Nil
    Today <- MCToday
    MonthStart <- MCMonthStart
    Texts <- MCTexts
    Answers <- MCAnswers
    Teams <- MCTeams
    Existing <- MCExisting
    Alike <- MCAlike
    Same <- MCSame
INVARIANTS TypeOK LessonsAsAsked BackwardExactly HomeworkUnderItsCourse TeacherKnownOrAsked
CHECK_DEADLOCK FALSE
